---- MODULE Spec2Model ----
(***************************************************************************)
(* A model of the reasoning-provider orchestrator ReasoningService         *)
(* (src/src/services/ReasoningService.ts).                                 *)
(*                                                                         *)
(* One orchestrator instance serves MaxCalls concurrently issued           *)
(* processText calls.  JavaScript runs every piece of code between two     *)
(* awaits atomically, so every action below is one such piece: the         *)
(* synchronous prefix of processText, or the continuation that runs when   *)
(* an awaited promise (key retrieval, fetch, body read, backoff delay,     *)
(* delegated call) settles.  Strings the code inspects character by        *)
(* character (model names, base URLs) are sequences of one-character       *)
(* strings.                                                                *)
(***************************************************************************)
EXTENDS Integers, Sequences, FiniteSets, TLC

\* ---------------------------------------------------------------- bounds
\* Number of processText calls that may be unresolved at the same time.
MaxCalls == 2
\* Number of retries the retry executor may grant one call.
MaxRetries == 1

Calls == 1..MaxCalls

\* ------------------------------------------------------- string helpers
\* String.prototype.toLowerCase on the characters that occur in the model.
LowerChar(ch) ==
    CASE ch = "R" -> "r"
      [] ch = "C" -> "c"
      [] ch = "H" -> "h"
      [] ch = "S" -> "s"
      [] OTHER -> ch

ToLower(s) == [i \in 1..Len(s) |-> LowerChar(s[i])]

\* String.prototype.endsWith
EndsWith(s, suf) ==
    /\ Len(suf) <= Len(s)
    /\ SubSeq(s, Len(s) - Len(suf) + 1, Len(s)) = suf

\* String.prototype.startsWith
StartsWith(s, pre) ==
    /\ Len(pre) <= Len(s)
    /\ SubSeq(s, 1, Len(pre)) = pre

\* String.prototype.includes
Includes(s, sub) ==
    \E i \in 1..(Len(s) + 1) :
        /\ i + Len(sub) - 1 <= Len(s)
        /\ SubSeq(s, i, i + Len(sub) - 1) = sub

IsSpace(ch) == ch = " "

RECURSIVE TrimStart(_)
TrimStart(s) ==
    IF s # <<>> /\ IsSpace(Head(s)) THEN TrimStart(Tail(s)) ELSE s

RECURSIVE TrimEnd(_)
TrimEnd(s) ==
    IF s # <<>> /\ IsSpace(s[Len(s)]) THEN TrimEnd(SubSeq(s, 1, Len(s) - 1)) ELSE s

\* String.prototype.trim
Trim(s) == TrimEnd(TrimStart(s))

\* ------------------------------------------------------------- strings
HTTPS == <<"h", "t", "t", "p", "s", ":", "/", "/">>
HTTP == <<"h", "t", "t", "p", ":", "/", "/">>
\* API_ENDPOINTS.OPENAI_BASE (config/constants): the built-in OpenAI base.
OPENAI_BASE == HTTPS \o <<"a", "p", "i", ".", "o", "p", "e", "n", "a", "i", ".", "c", "o", "m", "/", "v", "1">>
RESPONSES_PATH == <<"/", "r", "e", "s", "p", "o", "n", "s", "e", "s">>
CHAT_PATH == <<"/", "c", "h", "a", "t", "/", "c", "o", "m", "p", "l", "e", "t", "i", "o", "n", "s">>
GROQ_HOST == <<"a", "p", "i", ".", "g", "r", "o", "q", ".", "c", "o", "m">>
ANTHROPIC_HOST == <<"a", "p", "i", ".", "a", "n", "t", "h", "r", "o", "p", "i", "c", ".", "c", "o", "m">>
GEMINI_HOST == <<"g", "e", "n", "e", "r", "a", "t", "i", "v", "e", "l", "a", "n", "g", "u", "a", "g", "e", ".", "g", "o", "o", "g", "l", "e", "a", "p", "i", "s", ".", "c", "o", "m">>
LOCALHOST == <<":", "/", "/", "l", "o", "c", "a", "l", "h", "o", "s", "t">>
LOOPBACK_IP == <<":", "/", "/", "1", "2", "7", ".", "0", ".", "0", ".", "1">>

\* Values the settings store may hold under "cloudReasoningBaseUrl".
CustomPlain == HTTPS \o <<"x", ".", "i", "o", "/", "v", "1">>
StoredNone == <<>>
StoredPlain == <<" ">> \o CustomPlain \o <<" ">>
StoredResponses == CustomPlain \o <<"/", "R", "e", "s", "p", "o", "n", "s", "e", "s">>
StoredChat == CustomPlain \o <<"/", "C", "h", "a", "t", "/", "C", "o", "m", "p", "l", "e", "t", "i", "o", "n", "s">>
StoredInsecure == HTTP \o <<"x", ".", "i", "o", "/", "v", "1">>
StoredGroq == HTTPS \o GROQ_HOST \o <<"/", "o", "p", "e", "n", "a", "i", "/", "v", "1">>
StoredLoopback == HTTP \o <<"l", "o", "c", "a", "l", "h", "o", "s", "t", "/", "v", "1">>

\* A host that merely begins with "localhost".
StoredLookalike == HTTP \o <<"l", "o", "c", "a", "l", "h", "o", "s", "t", ".", "x", ".", "i", "o", "/", "v", "1">>

StoredBaseUrls ==
    {StoredNone, StoredPlain, StoredResponses, StoredChat, StoredInsecure}
\* Stored values by which the acceptance of a custom base URL shows.
SecurityUrls ==
    {StoredNone, StoredPlain, StoredInsecure, StoredGroq, StoredLoopback,
     StoredLookalike}

\* Model names known to the registry, and one it classifies outside the
\* five providers.
M_gpt == <<"g", "p", "t">>
M_claude == <<"c", "l", "a", "u", "d", "e">>
M_local == <<"l", "o", "c", "a", "l">>
M_gemini == <<"g", "e", "m", "i", "n", "i">>
M_groq == <<"g", "r", "o", "q">>
M_other == <<"m", "i", "s", "t", "r", "a", "l">>

\* The model argument of processText: a string, or no string at all
\* (undefined takes the parameter's default "", null fails the optional
\* chaining).
StrArg(s) == [kind |-> "string", chars |-> s]
NoArg(k) == [kind |-> k, chars |-> <<>>]

ModelArgs ==
    {NoArg("undefined"), NoArg("null"),
     StrArg(<<>>), StrArg(<<" ">>), StrArg(<<" ", " ">>),
     StrArg(M_gpt), StrArg(<<" ">> \o M_gpt \o <<" ">>),
     StrArg(M_claude), StrArg(M_local), StrArg(M_gemini),
     StrArg(M_groq), StrArg(M_groq \o <<" ">>),
     StrArg(M_other)}

\* ------------------------------------------------- external collaborators
\* getModelProvider (models/ModelRegistry): the registry's classification
\* of a model name.  M_other stands for a name it classifies outside the
\* five providers the orchestrator knows.
getModelProvider(m) ==
    CASE m = M_gpt -> "openai"
      [] m = M_claude -> "anthropic"
      [] m = M_local -> "local"
      [] m = M_gemini -> "gemini"
      [] m = M_groq -> "groq"
      [] OTHER -> "mistral"

KnownProviders == {"openai", "anthropic", "local", "gemini", "groq"}
DirectProviders == {"openai", "gemini", "groq"}

\* normalizeBaseUrl (config/constants): trailing slashes are dropped.
RECURSIVE normalizeBaseUrl(_)
normalizeBaseUrl(u) ==
    IF u # <<>> /\ u[Len(u)] = "/"
    THEN normalizeBaseUrl(SubSeq(u, 1, Len(u) - 1))
    ELSE u

\* buildApiUrl (config/constants): the path appended to the base.
buildApiUrl(base, path) == base \o path

\* --------------------------------------------------- endpoint resolution
\* getConfiguredOpenAIBase: the stored custom base URL, or the built-in
\* default when there is no storage, nothing stored, a known non-OpenAI
\* provider's domain, or a scheme other than https off the loopback host.
getConfiguredOpenAIBase(hasStorage, stored) ==
    IF ~hasStorage THEN OPENAI_BASE
    ELSE
    LET trimmed == Trim(stored)
        normalized == IF normalizeBaseUrl(trimmed) = <<>>
                      THEN OPENAI_BASE
                      ELSE normalizeBaseUrl(trimmed)
        isKnownNonOpenAI == \/ Includes(normalized, GROQ_HOST)
                            \/ Includes(normalized, ANTHROPIC_HOST)
                            \/ Includes(normalized, GEMINI_HOST)
        isLocalhost == \/ Includes(normalized, LOCALHOST)
                       \/ Includes(normalized, LOOPBACK_IP)
    IN  IF trimmed = <<>> THEN OPENAI_BASE
        ELSE IF isKnownNonOpenAI THEN OPENAI_BASE
        ELSE IF ~StartsWith(normalized, HTTPS) /\ ~isLocalhost THEN OPENAI_BASE
        ELSE normalized

\* Every base URL the driver can resolve.
Bases ==
    {getConfiguredOpenAIBase(h, u) : h \in BOOLEAN, u \in StoredBaseUrls \cup SecurityUrls}

Shapes == {"responses", "chat"}
NoPrefs == [b \in Bases |-> "none"]

\* The item "openAiEndpointPreference" of the durable storage, as
\* JSON.parse sees it: absent (or empty), not JSON at all, JSON that is no
\* object, or an object whose entries are map[b] ("none": no entry).
StoredItem(k, m) == [kind |-> k, map |-> m]
NoItem == StoredItem("absent", NoPrefs)

\* getStoredOpenAiPreference, the value: the in-memory entry when there is
\* one, else the entry of the stored object when it is a shape.
getStoredOpenAiPreference(mem, hasStorage, item, base) ==
    IF mem[base] # "none" THEN mem[base]
    ELSE IF ~hasStorage THEN "none"
    ELSE IF item.kind # "object" THEN "none"
    ELSE IF item.map[base] \in Shapes THEN item.map[base]
    ELSE "none"

\* getStoredOpenAiPreference, the effect: a shape read from the storage is
\* written to the in-memory map.
memAfterRead(mem, hasStorage, item, base) ==
    [mem EXCEPT ![base] = getStoredOpenAiPreference(mem, hasStorage, item, base)]

\* Faulty variant: the stored object is replaced by one holding only the
\* new entry.
itemAfterRememberFresh(hasStorage, item, base, preference) ==
    IF ~hasStorage THEN item
    ELSE StoredItem("object", [NoPrefs EXCEPT ![base] = preference])

\* rememberOpenAiPreference, the storage part: the entry is written into
\* the stored object (a fresh one when nothing or no object is stored);
\* a stored value that does not parse leaves the storage as it is.
itemAfterRemember(hasStorage, item, base, preference) ==
    IF ~hasStorage THEN item
    ELSE IF item.kind = "garbage" THEN item
    ELSE IF item.kind = "object"
         THEN StoredItem("object", [item.map EXCEPT ![base] = preference])
    ELSE StoredItem("object", [NoPrefs EXCEPT ![base] = preference])

Candidate(u, t) == [url |-> u, type |-> t]

\* Faulty variant: the "chat" preference is not honoured.
getOpenAIEndpointCandidatesNoPreference(base, pref) ==
    LET lower == ToLower(base) IN
    IF EndsWith(lower, RESPONSES_PATH) \/ EndsWith(lower, CHAT_PATH)
    THEN <<Candidate(base, IF EndsWith(lower, RESPONSES_PATH)
                           THEN "responses" ELSE "chat")>>
    ELSE <<Candidate(buildApiUrl(base, RESPONSES_PATH), "responses"),
           Candidate(buildApiUrl(base, CHAT_PATH), "chat")>>

\* Faulty variant: the chat-completions endpoint is tried first.
getOpenAIEndpointCandidatesChatFirst(base, pref) ==
    LET lower == ToLower(base) IN
    IF EndsWith(lower, RESPONSES_PATH) \/ EndsWith(lower, CHAT_PATH)
    THEN <<Candidate(base, IF EndsWith(lower, RESPONSES_PATH)
                           THEN "responses" ELSE "chat")>>
    ELSE IF pref = "chat"
    THEN <<Candidate(buildApiUrl(base, CHAT_PATH), "chat")>>
    ELSE <<Candidate(buildApiUrl(base, CHAT_PATH), "chat"),
           Candidate(buildApiUrl(base, RESPONSES_PATH), "responses")>>

\* Faulty variant: the suffix is compared without lowering the base.
getOpenAIEndpointCandidatesCaseSensitive(base, pref) ==
    IF EndsWith(base, RESPONSES_PATH) \/ EndsWith(base, CHAT_PATH)
    THEN <<Candidate(base, IF EndsWith(base, RESPONSES_PATH)
                           THEN "responses" ELSE "chat")>>
    ELSE IF pref = "chat"
    THEN <<Candidate(buildApiUrl(base, CHAT_PATH), "chat")>>
    ELSE <<Candidate(buildApiUrl(base, RESPONSES_PATH), "responses"),
           Candidate(buildApiUrl(base, CHAT_PATH), "chat")>>

\* getOpenAIEndpointCandidates: pref is getStoredOpenAiPreference(base).
getOpenAIEndpointCandidates(base, pref) ==
    LET lower == ToLower(base) IN
    IF EndsWith(lower, RESPONSES_PATH) \/ EndsWith(lower, CHAT_PATH)
    THEN <<Candidate(base, IF EndsWith(lower, RESPONSES_PATH)
                           THEN "responses" ELSE "chat")>>
    ELSE IF pref = "chat"
    THEN <<Candidate(buildApiUrl(base, CHAT_PATH), "chat")>>
    ELSE <<Candidate(buildApiUrl(base, RESPONSES_PATH), "responses"),
           Candidate(buildApiUrl(base, CHAT_PATH), "chat")>>

HasShapeSuffix(base) ==
    EndsWith(ToLower(base), RESPONSES_PATH) \/ EndsWith(ToLower(base), CHAT_PATH)

\* ------------------------------------------------------------------ state
VARIABLES
    isProcessing,               \* the guard shared by the direct drivers
    apiKeyCache,                \* provider -> cached key ("": none)
    expiredKeys,                \* providers whose cached key is older than the TTL
    cleanupRunning,             \* the cleanup timer of the cache is running
    openAiEndpointPreference,   \* base -> "responses" | "chat" ("none": no entry)
    localStoragePrefs,          \* the stored item "openAiEndpointPreference"
    cloudReasoningBaseUrl,      \* the stored item "cloudReasoningBaseUrl"
    hasStorage,                 \* window.localStorage exists
    hasElectron,                \* window.electronAPI exists
    TOKEN_LIMITS,               \* the token limits the build was configured with
    calls,                      \* the unresolved processText calls, by slot
    chatMarked,                 \* history: bases marked "chat" on a 404/405
    event                       \* history: what the last step did

vars == <<isProcessing, apiKeyCache, expiredKeys, cleanupRunning, openAiEndpointPreference,
         localStoragePrefs,
         cloudReasoningBaseUrl, hasStorage, hasElectron, TOKEN_LIMITS, calls,
         chatMarked, event>>

env == <<cloudReasoningBaseUrl, hasStorage, hasElectron, TOKEN_LIMITS>>

API_KEY == "sk-key"

\* HTTP outcomes of one request: a status, or 0 for a fetch that rejects.
NetworkError == 0
HttpOk == 200
HttpOutcomes == {HttpOk, 404, 405, 500, NetworkError}

\* Error messages.
ErrNoModel == "No reasoning model selected"
ErrBusy == "Already processing a request"
ErrUnsupported == "Unsupported reasoning provider: mistral"
ErrNetwork == "Failed to fetch"
ErrBadJson == "Unexpected token in JSON"

KeyMissingError(provider) ==
    CASE provider = "openai" -> "Openai API key not configured"
      [] provider = "gemini" -> "Gemini API key not configured"
      [] provider = "groq" -> "Groq API key not configured"

\* `${providerName} API error: ${res.status}`, the message of a non-2xx
\* response whose body carries none.
ApiError(provider, status) ==
    CASE provider = "openai" /\ status = 404 -> "OpenAI API error: 404"
      [] provider = "openai" /\ status = 405 -> "OpenAI API error: 405"
      [] provider = "openai" -> "OpenAI API error: 500"
      [] provider = "gemini" /\ status = 404 -> "Gemini API error: 404"
      [] provider = "gemini" /\ status = 405 -> "Gemini API error: 405"
      [] provider = "gemini" -> "Gemini API error: 500"
      [] provider = "groq" /\ status = 404 -> "Groq API error: 404"
      [] provider = "groq" /\ status = 405 -> "Groq API error: 405"
      [] OTHER -> "Groq API error: 500"

RequestError(provider, outcome) ==
    IF outcome = NetworkError THEN ErrNetwork ELSE ApiError(provider, outcome)

\* A slot holding no call.  While a call runs, text is its input text, pc
\* the await it is suspended at, reqs the requests of its current attempt,
\* and afterMark
\* whether it was issued after its base had been marked "chat" on a
\* 404/405.
IdleCall ==
    [pc |-> "idle", provider |-> "", model |-> <<>>, text |-> <<>>, apiKey |-> "",
     base |-> <<>>, pref |-> "none", cands |-> <<>>, idx |-> 0, attempt |-> 0,
     reqs |-> <<>>, invoked |-> {}, afterMark |-> FALSE]

\* What a step did: the operation and its call; for the start of a call
\* its model argument, the registry's classification and the driver the
\* switch invoked; for a settled request its outcome, the
\* shape of the endpoint that answered and whether the attempt had more
\* endpoints to try; for a settled key retrieval what it got; for a
\* response body or a delegated call's envelope what it held; and, when
\* the step ended the call, how: settled, and either threw (raised is the
\* message of the error the driver raised, error the one processText
\* threw) or returned result for the input text.
NoBody == [json |-> FALSE]

\* config.maxTokens: absent, or a number.
NoMaxTokens == [kind |-> "undefined", value |-> 0]
MaxTokens(n) == [kind |-> "number", value |-> n]

NoEvent ==
    [op |-> "init", call |-> 0, arg |-> NoArg("none"), provider |-> "",
     driver |-> "", outcome |-> 0 - 1, type |-> "", more |-> FALSE, got |-> "",
     body |-> NoBody, text |-> <<>>, settled |-> FALSE, threw |-> FALSE,
     raised |-> "", error |-> "", result |-> <<>>, swept |-> {},
     length |-> 0, maxTokens |-> NoMaxTokens, sent |-> 0]

Step(op, c) ==
    [NoEvent EXCEPT !.op = op, !.call = c, !.provider = calls[c].provider,
                    !.driver = calls[c].provider, !.text = calls[c].text]

\* Faulty variant: processText replaces the driver's message.
RethrownGeneric(err) == "Reasoning failed"

\* The catch of processText: `throw error`.
Rethrown(err) == err

\* The call ended with an error raised before the try of processText.
ThrewOutside(ev, err) ==
    [ev EXCEPT !.settled = TRUE, !.threw = TRUE, !.raised = err, !.error = err]
\* The call ended with an error raised in the switch or in a driver.
Threw(ev, err) ==
    [ev EXCEPT !.settled = TRUE, !.threw = TRUE, !.raised = err,
               !.error = Rethrown(err)]
Returned(ev, res) == [ev EXCEPT !.settled = TRUE, !.result = res]

\* A call is unresolved from its issue until it returns or throws.
Unresolved(c) == calls[c].pc # "idle"
DirectInFlight(c) == Unresolved(c) /\ calls[c].provider \in DirectProviders

\* The preference items a storage may hold when the orchestrator is built.
NoItems == {NoItem}

\* A base URL other than the given one.
OtherBase(base) == IF base = OPENAI_BASE THEN CustomPlain ELSE OPENAI_BASE

InitialItems(base, written) ==
    IF written
    THEN {NoItem, StoredItem("garbage", NoPrefs)}
         \cup {StoredItem("object", [NoPrefs EXCEPT ![base] = v]) :
               v \in {"responses", "chat", "bogus"}}
         \cup {StoredItem("object", [NoPrefs EXCEPT ![OtherBase(base)] = "chat"])}
    ELSE NoItems

\* The orchestrator just constructed, in one of the environments Envs
\* (stored base URL, storage, delegated channel); written tells whether an
\* earlier run may have left a preference item in the storage.
\* The token limits a build may be configured with: a general floor and
\* ceiling, a floor and ceiling for Gemini, and a multiplier (a fraction
\* num / den) of the text length.
Limits(lo, hi, loGemini, hiGemini, mult) ==
    [MIN_TOKENS |-> lo, MAX_TOKENS |-> hi, MIN_TOKENS_GEMINI |-> loGemini,
     MAX_TOKENS_GEMINI |-> hiGemini, TOKEN_MULTIPLIER |-> mult]
Fraction(n, d) == [num |-> n, den |-> d]
TokenLimits ==
    {Limits(lo, hi, loGemini, 8192, mult) :
        lo \in {100, 4096}, hi \in {4096, 8192}, loGemini \in {1000, 2000},
        mult \in {Fraction(2, 1), Fraction(3, 2)}}
    \cup {Limits(100, 2048, loGemini, 8192, mult) :
        loGemini \in {1000, 2000}, mult \in {Fraction(2, 1), Fraction(3, 2)}}
\* The limits of the builds whose requests are not looked into.
SomeTokenLimits == {Limits(100, 2048, 2000, 8192, Fraction(2, 1))}

InitWith(Envs, written, BuildLimits) ==
    /\ TOKEN_LIMITS \in BuildLimits
    /\ isProcessing = FALSE
    /\ apiKeyCache = [p \in DirectProviders |-> ""]
    /\ expiredKeys = {}
    /\ cleanupRunning = TRUE
    /\ openAiEndpointPreference = NoPrefs
    /\ \E e \in Envs :
        /\ hasStorage = e.storage
        /\ hasElectron = e.electron
        /\ cloudReasoningBaseUrl = e.url
    /\ localStoragePrefs \in
         IF hasStorage
         THEN InitialItems(getConfiguredOpenAIBase(hasStorage, cloudReasoningBaseUrl),
                           written)
         ELSE {NoItem}
    /\ calls = [c \in Calls |-> IdleCall]
    /\ chatMarked = {}
    /\ event = NoEvent

InitIn(Envs, written) == InitWith(Envs, written, SomeTokenLimits)

Env(u, s, e) == [url |-> u, storage |-> s, electron |-> e]

AllEnvs ==
    {Env(u, TRUE, e) : u \in StoredBaseUrls, e \in BOOLEAN}
    \cup {Env(StoredNone, FALSE, e) : e \in BOOLEAN}

\* ------------------------------------------------------------ processText
\* Faulty variant: the model is not trimmed before the emptiness check.
TrimmedModelUntrimmed(arg) == IF arg.kind = "string" THEN arg.chars ELSE <<>>

\* `model?.trim?.() || ""`
TrimmedModel(arg) == IF arg.kind = "string" THEN Trim(arg.chars) ELSE <<>>

\* Faulty variant: the "gemini" case falls into the "groq" one.
DispatchFallsThrough(provider) ==
    IF provider = "gemini" THEN "groq"
    ELSE IF provider \in KnownProviders THEN provider ELSE "none"

\* Faulty variant: an unknown classification is served by the OpenAI driver.
DispatchDefaultsToOpenAI(provider) ==
    IF provider \in KnownProviders THEN provider ELSE "openai"

\* The switch of processText: the driver invoked for a classification,
\* "none" for the default branch.
Dispatch(provider) == IF provider \in KnownProviders THEN provider ELSE "none"

\* The model handed to the driver: the Groq branch passes `model`, the
\* others `trimmedModel`.
HandedModel(provider, arg) ==
    IF provider = "groq" THEN arg.chars ELSE TrimmedModel(arg)

\* `if (this.isProcessing) throw` at the head of the three direct drivers.
GuardRejects(driver, busy) == busy

\* Faulty variant: the Groq driver has no `finally`.
GuardAfterFinallyNotGroq(driver, cur) == IF driver = "groq" THEN cur ELSE FALSE

\* The `finally` of the three direct drivers: the guard's value after it.
GuardAfterFinally(driver, cur) == FALSE

UnavailableError(driver) ==
    IF driver = "anthropic"
    THEN "Anthropic reasoning is not available in this environment"
    ELSE "Local reasoning is not available in this environment"

\* Slots are interchangeable: a call takes the lowest free one.
FreeSlot(c) ==
    /\ calls[c].pc = "idle"
    /\ \A d \in Calls : d < c => calls[d].pc # "idle"

\* Faulty variant: the guard check stands inside the try, and the `finally`
\* of the rejected call clears the guard.
GuardAfterRejectionCleared(cur) == FALSE

\* `throw new Error("Already processing a request")` stands before the
\* try/finally of the driver: the guard's value after the rejection.
GuardAfterRejection(cur) == cur

\* Faulty variant: the delegated drivers check the guard as well.
DelegatedGuardChecks(driver, busy) == busy

\* processWithAnthropic and processWithLocal do not look at isProcessing.
DelegatedGuardRejects(driver, busy) == FALSE

\* processText up to its first await: the model check, the registry
\* lookup, the switch, and the head of the driver (guard check and cache
\* lookup of a direct driver, the delegated call of the other two).
Start(c, Args, Texts) ==
    /\ FreeSlot(c)
    /\ \E arg \in Args, text \in Texts :
        LET trimmedModel == TrimmedModel(arg)
            provider == getModelProvider(trimmedModel)
            driver == Dispatch(provider)
            base == getConfiguredOpenAIBase(hasStorage, cloudReasoningBaseUrl)
            routed == [IdleCall EXCEPT
                         !.provider = provider,
                         !.model = HandedModel(provider, arg),
                         !.text = text,
                         !.invoked = {driver},
                         !.afterMark = provider = "openai" /\ base \in chatMarked]
            ev == [NoEvent EXCEPT !.op = "start", !.call = c, !.arg = arg,
                                  !.text = text]
            evRouted == [ev EXCEPT !.provider = provider,
                                   !.driver = IF driver = "none" THEN "" ELSE driver]
        IN  IF trimmedModel = <<>>
            THEN /\ event' = ThrewOutside(ev, ErrNoModel)
                 /\ UNCHANGED <<calls, isProcessing>>
            ELSE IF driver = "none"
            THEN /\ event' = Threw(evRouted, ErrUnsupported)
                 /\ UNCHANGED <<calls, isProcessing>>
            ELSE IF driver \in DirectProviders
            THEN IF GuardRejects(driver, isProcessing)
                 THEN /\ event' = Threw(evRouted, ErrBusy)
                      /\ isProcessing' = GuardAfterRejection(isProcessing)
                      /\ UNCHANGED calls
                 ELSE /\ event' = evRouted
                      /\ calls' = [calls EXCEPT ![c] =
                           IF apiKeyCache[driver] # ""
                           THEN [routed EXCEPT !.pc = "keyReady",
                                               !.apiKey = apiKeyCache[driver]]
                           ELSE IF hasElectron
                           THEN [routed EXCEPT !.pc = "keyFetch"]
                           ELSE [routed EXCEPT !.pc = "keyReady"]]
                      /\ UNCHANGED isProcessing
            ELSE IF DelegatedGuardRejects(driver, isProcessing)
            THEN /\ event' = Threw(evRouted, ErrBusy)
                 /\ UNCHANGED <<calls, isProcessing>>
            ELSE IF hasElectron
            THEN /\ event' = evRouted
                 /\ calls' = [calls EXCEPT ![c] = [routed EXCEPT !.pc = "ipc"]]
                 /\ UNCHANGED isProcessing
            ELSE /\ event' = Threw(evRouted, UnavailableError(driver))
                 /\ UNCHANGED <<calls, isProcessing>>
    /\ UNCHANGED <<apiKeyCache, expiredKeys, openAiEndpointPreference,
                   localStoragePrefs, env, cleanupRunning, chatMarked>>

\* What the key-retrieval capability of a provider may settle with: a
\* key, an empty string, nothing, or a rejection.
KeyOutcomes == {"key", "empty", "nothing", "throws"}

\* Faulty variant: a retrieved key is not cached.
CacheAfterFetchNever(cache, provider, key) == cache

\* `if (apiKey) this.apiKeyCache.set(provider, apiKey)`
CacheAfterFetch(cache, provider, key) ==
    IF key # "" THEN [cache EXCEPT ![provider] = key] ELSE cache

\* getApiKey after the key-retrieval capability settled: a key is cached
\* (as a fresh entry) and returned; nothing, an empty value or a rejection
\* leave no key.
KeyFetched(c) ==
    /\ calls[c].pc = "keyFetch"
    /\ \E got \in KeyOutcomes :
        LET key == IF got = "key" THEN API_KEY ELSE "" IN
        /\ calls' = [calls EXCEPT ![c].pc = "keyReady", ![c].apiKey = key]
        /\ apiKeyCache' = CacheAfterFetch(apiKeyCache, calls[c].provider, key)
        /\ expiredKeys' = IF key # "" THEN expiredKeys \ {calls[c].provider}
                          ELSE expiredKeys
        /\ event' = [Step("key", c) EXCEPT !.got = got]
    /\ UNCHANGED <<isProcessing, openAiEndpointPreference, localStoragePrefs,
                   env, cleanupRunning, chatMarked>>

\* ------------------------------------------------------------- requests
GROQ_BASE == HTTPS \o GROQ_HOST \o <<"/", "o", "p", "e", "n", "a", "i", "/", "v", "1">>
GEMINI_BASE == HTTPS \o GEMINI_HOST \o <<"/", "v", "1", "b", "e", "t", "a">>

GeminiUrl(model) == GEMINI_BASE \o <<"/", "m", "o", "d", "e", "l", "s", "/">> \o model \o <<":", "g", "e", "n", "e", "r", "a", "t", "e", "C", "o", "n", "t", "e", "n", "t">>

Request(att, cand) == [att |-> att, type |-> cand.type, url |-> cand.url]

\* The endpoints one attempt of a driver walks through.
DriverCandidates(provider, model, base, pref) ==
    CASE provider = "openai" -> getOpenAIEndpointCandidates(base, pref)
      [] provider = "gemini" -> <<Candidate(GeminiUrl(model), "generateContent")>>
      [] OTHER -> <<Candidate(buildApiUrl(GROQ_BASE, CHAT_PATH), "chat")>>

\* Faulty variant: the guard is taken before the key is awaited, and the
\* rejection of getApiKey leaves it taken.
GuardAfterKeyMissingHeld(cur) == TRUE

\* The rejection of `await this.getApiKey(...)` leaves the driver before
\* `this.isProcessing = true` and outside its try/finally: the guard's
\* value after it.
GuardAfterKeyMissing(cur) == cur

\* The driver after `await this.getApiKey(...)`: without a key the call
\* fails there; with one the guard is taken, the endpoints are resolved and
\* the first request of the first attempt is sent.
DriverResume(c) ==
    /\ calls[c].pc = "keyReady"
    /\ LET rec == calls[c]
           base == IF rec.provider = "openai"
                   THEN getConfiguredOpenAIBase(hasStorage, cloudReasoningBaseUrl)
                   ELSE <<>>
           pref == IF rec.provider = "openai"
                   THEN getStoredOpenAiPreference(openAiEndpointPreference,
                                                  hasStorage, localStoragePrefs, base)
                   ELSE "none"
           cands == DriverCandidates(rec.provider, rec.model, base, pref)
       IN  IF rec.apiKey = ""
           THEN /\ calls' = [calls EXCEPT ![c] = IdleCall]
                /\ event' = Threw(Step("resume", c), KeyMissingError(rec.provider))
                /\ isProcessing' = GuardAfterKeyMissing(isProcessing)
                /\ UNCHANGED openAiEndpointPreference
           ELSE /\ isProcessing' = TRUE
                /\ openAiEndpointPreference' =
                     IF rec.provider = "openai"
                     THEN memAfterRead(openAiEndpointPreference, hasStorage,
                                       localStoragePrefs, base)
                     ELSE openAiEndpointPreference
                /\ calls' = [calls EXCEPT ![c] =
                               [rec EXCEPT !.pc = "http", !.base = base, !.pref = pref,
                                           !.cands = cands, !.idx = 1, !.attempt = 1,
                                           !.reqs = <<Request(1, cands[1])>>]]
                /\ event' = Step("resume", c)
    /\ UNCHANGED <<apiKeyCache, expiredKeys, localStoragePrefs, env, cleanupRunning, chatMarked>>

\* ---------------------------------------------------------- retry executor
\* withRetry (utils/retry) after an attempt threw: it waits and runs the
\* attempt again, at most MaxRetries times, or rethrows; which errors its
\* strategy retries is left open.  A rethrown error leaves the driver
\* through its `finally`.
\* Faulty variant: the retry executor grants another attempt every time.
RetryAllowedAlways(attempt) == TRUE

\* The retry executor may grant an attempt after this one.
RetryAllowed(attempt) == attempt <= MaxRetries

AttemptFailed(c, ev, err) ==
    \/ /\ RetryAllowed(calls[c].attempt)
       /\ calls' = [calls EXCEPT ![c].pc = "backoff", ![c].reqs = <<>>]
       /\ event' = ev
       /\ UNCHANGED isProcessing
    \/ /\ calls' = [calls EXCEPT ![c] = IdleCall]
       /\ event' = Threw(ev, err)
       /\ isProcessing' = GuardAfterFinally(calls[c].provider, isProcessing)

\* The backoff delay elapsed: the next attempt starts at the first endpoint.
Backoff(c) ==
    /\ calls[c].pc = "backoff"
    /\ LET rec == calls[c] IN
       calls' = [calls EXCEPT ![c] =
                   [rec EXCEPT !.pc = "http", !.idx = 1, !.attempt = rec.attempt + 1,
                               !.reqs = <<Request(rec.attempt + 1, rec.cands[1])>>]]
    /\ event' = Step("backoff", c)
    /\ UNCHANGED <<isProcessing, apiKeyCache, expiredKeys, openAiEndpointPreference,
                   localStoragePrefs, env, cleanupRunning, chatMarked>>

\* Faulty variant: only a 404 counts as an unsupported endpoint.
IsUnsupportedEndpointOnly404(outcome, type) ==
    outcome = 404 /\ type = "responses"

\* `(res.status === 404 || res.status === 405) && type === "responses"`
IsUnsupportedEndpoint(outcome, type) ==
    outcome \in {404, 405} /\ type = "responses"

\* Faulty variant: every failed request ends the attempt.
ContinuesAfterFailureNever(type) == FALSE

\* The catch of the endpoint loop: a failed "responses" request moves on
\* to the next endpoint, any other failure ends the attempt.
ContinuesAfterFailure(type) == type = "responses"

\* The preference a settled request makes the driver remember ("none":
\* nothing is written).
Remembered(outcome, type) ==
    IF outcome = HttpOk THEN type
    ELSE IF IsUnsupportedEndpoint(outcome, type) THEN "chat"
    ELSE "none"

\* One request of the OpenAI driver settled.
OpenAIResponse(c, outcome) ==
    LET rec == calls[c]
        cand == rec.cands[rec.idx]
        ev == [Step("http", c) EXCEPT !.outcome = outcome, !.type = cand.type,
                                      !.more = rec.idx < Len(rec.cands)]
        remembered == Remembered(outcome, cand.type)
    IN
    /\ openAiEndpointPreference' =
         IF remembered = "none" THEN openAiEndpointPreference
         ELSE [openAiEndpointPreference EXCEPT ![rec.base] = remembered]
    /\ localStoragePrefs' =
         IF remembered = "none" THEN localStoragePrefs
         ELSE itemAfterRemember(hasStorage, localStoragePrefs, rec.base, remembered)
    /\ chatMarked' =
         IF outcome # HttpOk /\ remembered = "chat"
         THEN chatMarked \cup {rec.base}
         ELSE chatMarked
    /\ IF outcome = HttpOk
       THEN /\ calls' = [calls EXCEPT ![c].pc = "body"]
            /\ event' = ev
            /\ UNCHANGED isProcessing
       ELSE IF ContinuesAfterFailure(cand.type) /\ rec.idx < Len(rec.cands)
       THEN /\ calls' = [calls EXCEPT ![c] =
                           [rec EXCEPT
                              !.idx = rec.idx + 1,
                              !.reqs = Append(rec.reqs,
                                              Request(rec.attempt, rec.cands[rec.idx + 1]))]]
            /\ event' = ev
            /\ UNCHANGED isProcessing
       ELSE AttemptFailed(c, ev, RequestError("openai", outcome))

\* The request of the Gemini driver, or of callChatCompletionsApi for
\* Groq, settled.
PlainResponse(c, outcome) ==
    LET ev == [Step("http", c) EXCEPT !.outcome = outcome,
                                      !.type = calls[c].cands[calls[c].idx].type] IN
    /\ IF outcome = HttpOk
       THEN /\ calls' = [calls EXCEPT ![c].pc = "body"]
            /\ event' = ev
            /\ UNCHANGED isProcessing
       ELSE AttemptFailed(c, ev, RequestError(calls[c].provider, outcome))
    /\ UNCHANGED <<openAiEndpointPreference, localStoragePrefs, chatMarked>>

HttpResponse(c, Outcomes) ==
    /\ calls[c].pc = "http"
    /\ \E outcome \in Outcomes :
         IF calls[c].provider = "openai"
         THEN OpenAIResponse(c, outcome)
         ELSE PlainResponse(c, outcome)
    /\ UNCHANGED <<apiKeyCache, expiredKeys, env, cleanupRunning>>

\* --------------------------------------------------------------- responses
\* The input text of a call and a cleaned text a provider answers with.
INPUT_TEXT == <<"r", "a", "w">>
CLEANED_TEXT == <<"c", "l", "e", "a", "n">>

\* A JSON field meant to hold text: a string, or no value.
Absent == NoArg("undefined")
\* `if (v)` on such a field
Truthy(v) == v.kind = "string" /\ v.chars # <<>>
\* `typeof v === "string"`
IsString(v) == v.kind = "string"
\* `typeof v === "string" && v.trim()`: the trimmed text, empty when there
\* is none.
TrimmedText(v) == IF IsString(v) THEN Trim(v.chars) ELSE <<>>

\* How a driver ends once it holds a parsed body: it throws or returns.
Failure(err) == [threw |-> TRUE, error |-> err, result |-> <<>>]
Success(res) == [threw |-> FALSE, error |-> "", result |-> res]

\* The parts of a 2xx OpenAI body the driver reads.
Content(t, v) == [type |-> t, text |-> v]
Item(t, cs) == [type |-> t, content |-> cs]
Message(v, ps) == [present |-> TRUE, content |-> v, parts |-> ps]
NoMessage == [present |-> FALSE, content |-> Absent, parts |-> <<>>]
Choice(m, d, v) == [message |-> m, delta |-> d, text |-> v]
OpenAIBody(o, t, cs) ==
    [json |-> TRUE, output |-> o, output_text |-> t, choices |-> cs]

\* The loop over item.content: the first "output_text" content whose text
\* is truthy ends the loop, and its trimmed text is the response text.
RECURSIVE FirstOutputText(_, _)
FirstOutputText(content, i) ==
    IF i > Len(content) THEN <<>>
    ELSE IF content[i].type = "output_text" /\ Truthy(content[i].text)
    THEN Trim(content[i].text.chars)
    ELSE FirstOutputText(content, i + 1)

\* The loop over response.output: it ends at the first "message" item that
\* gave a non-empty response text.
RECURSIVE FromOutput(_, _)
FromOutput(output, i) ==
    IF i > Len(output) THEN <<>>
    ELSE LET found == IF output[i].type = "message"
                      THEN FirstOutputText(output[i].content, 1)
                      ELSE <<>>
         IN  IF found # <<>> THEN found ELSE FromOutput(output, i + 1)

\* The loop over an array content: the first part with non-blank text.
RECURSIVE FirstPartText(_, _)
FirstPartText(parts, i) ==
    IF i > Len(parts) THEN <<>>
    ELSE IF TrimmedText(parts[i]) # <<>> THEN TrimmedText(parts[i])
    ELSE FirstPartText(parts, i + 1)

\* `choice?.message ?? choice?.delta`
ChoiceMessage(choice) ==
    IF choice.message.present THEN choice.message ELSE choice.delta

\* One choice: the string content of its message, else the first part of
\* an array content, else the choice's own text.
FromChoice(choice) ==
    LET message == ChoiceMessage(choice) IN
    IF TrimmedText(message.content) # <<>> THEN TrimmedText(message.content)
    ELSE IF FirstPartText(message.parts, 1) # <<>>
    THEN FirstPartText(message.parts, 1)
    ELSE TrimmedText(choice.text)

\* The loop over response.choices: it ends at the first choice with text.
RECURSIVE FromChoices(_, _)
FromChoices(choices, i) ==
    IF i > Len(choices) THEN <<>>
    ELSE IF FromChoice(choices[i]) # <<>> THEN FromChoice(choices[i])
    ELSE FromChoices(choices, i + 1)

\* The response text processWithOpenAI extracts from a parsed body.
ExtractOpenAIText(body) ==
    LET fromOutput == FromOutput(body.output, 1)
        fromTop == IF fromOutput = <<>> /\ IsString(body.output_text)
                   THEN Trim(body.output_text.chars)
                   ELSE fromOutput
    IN  IF fromTop # <<>> THEN fromTop ELSE FromChoices(body.choices, 1)

\* What processWithOpenAI makes of a parsed body: the extracted text, or
\* the input text when there is none.
OpenAIParsed(body, text) ==
    LET responseText == ExtractOpenAIText(body) IN
    Success(IF responseText = <<>> THEN text ELSE responseText)

\* The parts of a 2xx Gemini body the driver reads: the candidates, each
\* with the parts of its content and a finishReason.
Part(v) == [text |-> v]
GeminiCandidate(ps, reason) == [parts |-> ps, finishReason |-> reason]
GeminiBody(cs) == [json |-> TRUE, candidates |-> cs]

ErrGeminiStructure == "Invalid response structure from Gemini API"
ErrGeminiTokens == "Gemini reached token limit before generating response. Try a shorter input or increase max tokens."
ErrGeminiEmpty == "Gemini returned empty response"

\* `candidate.content?.parts?.[0]?.text`
GeminiText(candidate) ==
    IF candidate.parts = <<>> THEN Absent ELSE candidate.parts[1].text

\* Faulty variant: MAX_TOKENS is not told apart from other empty answers.
GeminiParsedNoTokenLimit(body, text) ==
    IF body.candidates = <<>> THEN Failure(ErrGeminiStructure)
    ELSE IF ~Truthy(GeminiText(body.candidates[1])) THEN Failure(ErrGeminiEmpty)
    ELSE Success(Trim(GeminiText(body.candidates[1]).chars))

\* What processWithGemini makes of a parsed body.
GeminiParsed(body, text) ==
    IF body.candidates = <<>> THEN Failure(ErrGeminiStructure)
    ELSE LET candidate == body.candidates[1] IN
         IF ~Truthy(GeminiText(candidate))
         THEN IF candidate.finishReason = "MAX_TOKENS"
              THEN Failure(ErrGeminiTokens)
              ELSE Failure(ErrGeminiEmpty)
         ELSE Success(Trim(GeminiText(candidate).chars))

\* The parts of a 2xx chat-completions body callChatCompletionsApi reads.
GroqBody(cs) == [json |-> TRUE, choices |-> cs]

ErrGroqStructure == "Invalid response structure from Groq API"
ErrGroqEmpty == "Groq returned empty response"

\* What callChatCompletionsApi makes of a parsed body:
\* `choice.message?.content?.trim() || ""`.
GroqParsed(body, text) ==
    IF body.choices = <<>> THEN Failure(ErrGroqStructure)
    ELSE LET responseText == TrimmedText(body.choices[1].message.content) IN
         IF responseText = <<>> THEN Failure(ErrGroqEmpty)
         ELSE Success(responseText)

\* A body that is not JSON: res.json() rejects.
NotJson == [json |-> FALSE]

Parsed(provider, body, text) ==
    CASE provider = "openai" -> OpenAIParsed(body, text)
      [] provider = "gemini" -> GeminiParsed(body, text)
      [] OTHER -> GroqParsed(body, text)

\* Texts a field may hold: none, an empty one, a blank one.
NoTexts == {Absent, StrArg(<<>>), StrArg(<<" ">>)}
\* A text per field, so that the field a result came from shows.
T(ch) == StrArg(<<" ", ch, " ">>)

\* The bodies a 2xx OpenAI response is drawn from.  In outline: one with
\* text and one without.  In detail: an output of up to two items and two
\* contents, a top-level output_text, and up to one choice with message,
\* delta and text.
OpenAIOutputs ==
    LET firsts == {Content("output_text", v) : v \in {Absent, StrArg(<<" ">>), T("a")}}
        seconds == {Content("output_text", T("b")), Content("refusal", T("b"))}
    IN  {<<>>}
        \cup {<<Item("message", <<c1>>)>> : c1 \in firsts}
        \cup {<<Item("message", <<c1, c2>>)>> : c1 \in firsts, c2 \in seconds}
        \cup {<<Item("reasoning", <<Content("output_text", T("b"))>>),
                Item("message", <<c1>>)>> : c1 \in firsts}
        \cup {<<Item("message", <<c1>>),
                Item("message", <<Content("output_text", T("b"))>>)>> : c1 \in firsts}

OpenAIChoices ==
    LET messages == {NoMessage, Message(Absent, <<>>), Message(StrArg(<<" ">>), <<>>),
                     Message(T("d"), <<>>),
                     Message(Absent, <<StrArg(<<" ">>), T("e")>>)}
        deltas == {NoMessage, Message(T("f"), <<>>)}
    IN  {<<>>} \cup {<<Choice(m, d, v)>> :
                       m \in messages, d \in deltas, v \in {Absent, T("g")}}

OpenAIBodies(detailed) ==
    IF detailed
    THEN {OpenAIBody(o, t, cs) :
            o \in OpenAIOutputs, t \in {Absent, StrArg(<<" ">>), T("c")},
            cs \in OpenAIChoices}
    ELSE {OpenAIBody(<<Item("message",
                            <<Content("output_text", StrArg(CLEANED_TEXT))>>)>>,
                     Absent, <<>>),
          OpenAIBody(<<>>, Absent, <<>>)}

\* The bodies a 2xx Gemini response is drawn from: no candidate, or a
\* first candidate with or without text and, in detail, a second one.
GeminiBodies(detailed) ==
    IF detailed
    THEN LET candidates ==
               {GeminiCandidate(ps, r) :
                  ps \in {<<>>} \cup {<<Part(v)>> : v \in NoTexts \cup {T("a")}},
                  r \in {"STOP", "MAX_TOKENS", "SAFETY"}}
         IN  {GeminiBody(<<>>)}
             \cup {GeminiBody(<<c>>) : c \in candidates}
             \cup {GeminiBody(<<c, GeminiCandidate(<<Part(T("b"))>>, "STOP")>>) :
                     c \in candidates}
    ELSE {GeminiBody(<<>>),
          GeminiBody(<<GeminiCandidate(<<Part(StrArg(CLEANED_TEXT))>>, "STOP")>>),
          GeminiBody(<<GeminiCandidate(<<>>, "MAX_TOKENS")>>),
          GeminiBody(<<GeminiCandidate(<<>>, "STOP")>>)}

\* The bodies a 2xx Groq response is drawn from: no choice, or a first
\* choice with or without a message and text.
GroqBodies(detailed) ==
    IF detailed
    THEN {GroqBody(<<>>)}
         \cup {GroqBody(<<Choice(m, NoMessage, Absent)>>) :
                 m \in {NoMessage} \cup {Message(v, <<>>) : v \in NoTexts \cup {T("a")}}}
    ELSE {GroqBody(<<>>),
          GroqBody(<<Choice(Message(StrArg(CLEANED_TEXT), <<>>), NoMessage, Absent)>>),
          GroqBody(<<Choice(Message(Absent, <<>>), NoMessage, Absent)>>)}

Bodies(provider, detailed) ==
    CASE provider = "openai" -> OpenAIBodies(detailed)
      [] provider = "gemini" -> GeminiBodies(detailed)
      [] OTHER -> GroqBodies(detailed)

\* res.json() settled.  A body that is not JSON rejects inside the retry
\* executor's attempt; everything else is decided after the executor
\* returned, and leaves the driver through its `finally`.
BodyRead(c, detailed) ==
    /\ calls[c].pc = "body"
    /\ \E body \in Bodies(calls[c].provider, detailed) \cup {NotJson} :
        LET rec == calls[c]
            ev == [Step("body", c) EXCEPT !.body = body,
                                          !.type = rec.cands[rec.idx].type]
            parsed == Parsed(rec.provider, body, rec.text)
        IN
        IF ~body.json
        THEN AttemptFailed(c, ev, ErrBadJson)
        ELSE /\ calls' = [calls EXCEPT ![c] = IdleCall]
             /\ event' = IF parsed.threw
                         THEN Threw(ev, parsed.error)
                         ELSE Returned(ev, parsed.result)
             /\ isProcessing' = GuardAfterFinally(rec.provider, isProcessing)
    /\ UNCHANGED <<apiKeyCache, expiredKeys, openAiEndpointPreference,
                   localStoragePrefs, env, cleanupRunning, chatMarked>>

\* ---------------------------------------------------------- delegated calls
\* What the delegated channel resolves to, {success, text, error}, or its
\* rejection.
Envelope(s, v, e) == [resolved |-> TRUE, success |-> s, text |-> v, error |-> e]
Rejected == [resolved |-> FALSE, success |-> FALSE, text |-> Absent, error |-> ""]

ErrDelegated == "delegated failure"
ErrIpc == "ipc channel error"
ErrNoLength == "Cannot read properties of undefined (reading 'length')"

Envelopes(detailed) ==
    IF detailed
    THEN {Rejected}
         \cup {Envelope(TRUE, v, "") : v \in NoTexts \cup {StrArg(CLEANED_TEXT)}}
         \cup {Envelope(FALSE, Absent, e) : e \in {ErrDelegated, "model not loaded", ""}}
    ELSE {Rejected, Envelope(TRUE, StrArg(CLEANED_TEXT), ""),
          Envelope(FALSE, Absent, ErrDelegated)}

\* What processWithAnthropic and processWithLocal make of the envelope:
\* `result.text` of a success (after reading `result.text.length`), else
\* `new Error(result.error)`.
Delegated(envelope) ==
    IF ~envelope.resolved THEN Failure(ErrIpc)
    ELSE IF envelope.success
    THEN IF IsString(envelope.text) THEN Success(envelope.text.chars)
         ELSE Failure(ErrNoLength)
    ELSE Failure(envelope.error)

\* processAnthropicReasoning / processLocalReasoning settled.
IpcResult(c, detailed) ==
    /\ calls[c].pc = "ipc"
    /\ \E envelope \in Envelopes(detailed) :
        LET ev == [Step("ipc", c) EXCEPT !.body = envelope]
            ended == Delegated(envelope)
        IN  event' = IF ended.threw THEN Threw(ev, ended.error)
                     ELSE Returned(ev, ended.result)
    /\ calls' = [calls EXCEPT ![c] = IdleCall]
    /\ UNCHANGED <<isProcessing, apiKeyCache, expiredKeys, openAiEndpointPreference,
                   localStoragePrefs, env, cleanupRunning, chatMarked>>

\* ------------------------------------------------------------ token budget
\* The literal floors of the two request builders.
GROQ_LITERAL_FLOOR == 4096
GEMINI_LITERAL_FLOOR == 2000

Max(a, b) == IF a >= b THEN a ELSE b
Min(a, b) == IF a <= b THEN a ELSE b
\* Math.ceil(length * multiplier)
CeilTimes(length, mult) == (length * mult.num + mult.den - 1) \div mult.den

\* calculateMaxTokens(textLength, minTokens, maxTokens, multiplier)
calculateMaxTokens(textLength, minTokens, maxTokens, multiplier) ==
    Max(minTokens, Min(CeilTimes(textLength, multiplier), maxTokens))

\* The value the builders compute for a text: the literal floor of the
\* builder or the calculated budget, whichever is larger.
ComputedBudget(provider, length, limits) ==
    IF provider = "gemini"
    THEN Max(GEMINI_LITERAL_FLOOR,
             calculateMaxTokens(length, limits.MIN_TOKENS_GEMINI,
                                limits.MAX_TOKENS_GEMINI, limits.TOKEN_MULTIPLIER))
    ELSE Max(GROQ_LITERAL_FLOOR,
             calculateMaxTokens(length, limits.MIN_TOKENS, limits.MAX_TOKENS,
                                limits.TOKEN_MULTIPLIER))

\* max_tokens / maxOutputTokens of the request:
\* `config.maxTokens || Math.max(literal, this.calculateMaxTokens(...))`.
SentMaxTokens(provider, length, maxTokens, limits) ==
    IF maxTokens.kind = "number" /\ maxTokens.value # 0
    THEN maxTokens.value
    ELSE ComputedBudget(provider, length, limits)

\* The providers whose request carries a max-token value, the lengths of
\* the texts and the values of config.maxTokens looked at.
BudgetProviders == {"groq", "gemini"}
TextLengths == {0, 1, 700, 1366, 2048, 3000, 5000}
MaxTokenConfigs == {NoMaxTokens} \cup {MaxTokens(n) : n \in {0 - 1, 0, 1, 50, 9000}}

\* A Groq or Gemini driver builds the body of its request.
BuildRequest ==
    /\ \E provider \in BudgetProviders, length \in TextLengths,
          maxTokens \in MaxTokenConfigs :
          event' = [NoEvent EXCEPT
                      !.op = "request", !.provider = provider, !.driver = provider,
                      !.length = length, !.maxTokens = maxTokens,
                      !.sent = SentMaxTokens(provider, length, maxTokens, TOKEN_LIMITS)]
    /\ UNCHANGED <<isProcessing, apiKeyCache, expiredKeys, openAiEndpointPreference,
                   localStoragePrefs, env, cleanupRunning, chatMarked, calls>>

\* ---------------------------------------------------------- credential cache
\* The credential cache keeps an entry until it is deleted: an entry older
\* than the TTL stays readable until the cleanup cycle removes it.

\* Time passes: the cached key of a provider becomes older than the TTL.
Expire(p) ==
    /\ apiKeyCache[p] # ""
    /\ p \notin expiredKeys
    /\ expiredKeys' = expiredKeys \cup {p}
    /\ event' = [NoEvent EXCEPT !.op = "expire", !.provider = p]
    /\ UNCHANGED <<isProcessing, apiKeyCache, openAiEndpointPreference,
                   localStoragePrefs, env, cleanupRunning, chatMarked, calls>>

\* Faulty variant: the cleanup cycle removes every entry.
SweptAll(cache, expired) == [p \in DOMAIN cache |-> ""]

\* The cache after a cleanup cycle: the entries older than the TTL are gone.
Swept(cache, expired) ==
    [p \in DOMAIN cache |-> IF p \in expired THEN "" ELSE cache[p]]

\* Faulty variant: the handle does not stop the timer.
StoppedNever(running) == running

\* The timer after the handle returned by startAutoCleanup was invoked.
Stopped(running) == FALSE

\* destroy(): invokes the handle that stops the cleanup timer; the event
\* tells whether the timer was still running.
destroy ==
    /\ cleanupRunning' = Stopped(cleanupRunning)
    /\ event' = [NoEvent EXCEPT !.op = "destroy",
                                !.got = IF cleanupRunning THEN "running" ELSE "stopped"]
    /\ UNCHANGED <<isProcessing, apiKeyCache, expiredKeys, openAiEndpointPreference,
                   localStoragePrefs, env, chatMarked, calls>>

\* One cleanup cycle of the timer started by the constructor.
Cleanup ==
    /\ cleanupRunning
    /\ apiKeyCache' = Swept(apiKeyCache, expiredKeys)
    /\ expiredKeys' = {}
    /\ event' = [NoEvent EXCEPT !.op = "cleanup",
                                !.swept = {p \in DirectProviders :
                                             apiKeyCache[p] # "" /\ apiKeyCache'[p] = ""}]
    /\ UNCHANGED <<isProcessing, openAiEndpointPreference, localStoragePrefs,
                   env, cleanupRunning, chatMarked, calls>>

\* Whom clearApiKeyCache may be called for: one provider with a cached
\* key of its own, or nobody ("": every provider).
ClearTargets == DirectProviders \cup {""}

\* Faulty variant: every entry is removed, whoever is named.
ClearedAll(cache, provider) == [p \in DOMAIN cache |-> ""]

\* The cache after delete(provider), or after clear() when no provider is
\* given.
Cleared(cache, provider) ==
    IF provider # ""
    THEN [cache EXCEPT ![provider] = ""]
    ELSE [p \in DOMAIN cache |-> ""]

\* clearApiKeyCache(provider?): deletes the entry of the provider, or all
\* entries when no provider is given.
clearApiKeyCache(provider) ==
    /\ apiKeyCache' = Cleared(apiKeyCache, provider)
    /\ expiredKeys' = {p \in expiredKeys : apiKeyCache'[p] # ""}
    /\ event' = [NoEvent EXCEPT !.op = "clear", !.provider = provider,
                                !.swept = {p \in DirectProviders :
                                             apiKeyCache[p] # "" /\ apiKeyCache'[p] = ""}]
    /\ UNCHANGED <<isProcessing, openAiEndpointPreference, localStoragePrefs,
                   env, cleanupRunning, chatMarked, calls>>

\* ---------------------------------------------------------- specifications
Progress(c, Outcomes, detailed) ==
    \/ KeyFetched(c)
    \/ DriverResume(c)
    \/ HttpResponse(c, Outcomes)
    \/ Backoff(c)
    \/ BodyRead(c, detailed)
    \/ IpcResult(c, detailed)

\* Concurrent use: up to MaxCalls calls are unresolved at a time, on an
\* orchestrator whose custom base URL names no shape and whose storage
\* holds no preference yet; the callers use one model of each direct
\* provider and one delegated one, and a request succeeds, meets an
\* unsupported endpoint or fails.
ConcurrentEnvs == {Env(StoredPlain, TRUE, TRUE)}
ConcurrentArgs == {StrArg(M_gpt), StrArg(M_claude), StrArg(M_gemini), StrArg(M_groq)}
ConcurrentOutcomes == {HttpOk, 404, 500}

Init == InitIn(ConcurrentEnvs, FALSE)

Next ==
    \E c \in Calls :
        \/ Start(c, ConcurrentArgs, {INPUT_TEXT})
        \/ Progress(c, ConcurrentOutcomes, FALSE)

Spec == Init /\ [][Next]_vars

\* Sequential use: the caller awaits each call before it issues the next,
\* in every environment.
SeqInit == InitIn(AllEnvs, TRUE)

NoneUnresolved == \A c \in Calls : ~Unresolved(c)

SeqNext ==
    \E c \in Calls :
        \/ NoneUnresolved /\ Start(c, ModelArgs, {INPUT_TEXT})
        \/ Progress(c, HttpOutcomes, FALSE)

SeqSpec == SeqInit /\ [][SeqNext]_vars

\* Responses in detail: the caller awaits each call, on an orchestrator
\* with the built-in base URL; the input text may be empty, a request is
\* answered 2xx or 500, and the bodies and envelopes are drawn from the
\* detailed sets.
ParseEnvs == {Env(StoredNone, TRUE, TRUE)}
ParseArgs ==
    {StrArg(M_gpt), StrArg(M_claude), StrArg(M_local), StrArg(M_gemini),
     StrArg(M_groq)}
ParseTexts == {<<>>, INPUT_TEXT}
ParseOutcomes == {HttpOk, 500}

ParseInit == InitIn(ParseEnvs, FALSE)

ParseNext ==
    \E c \in Calls :
        \/ NoneUnresolved /\ Start(c, ParseArgs, ParseTexts)
        \/ Progress(c, ParseOutcomes, TRUE)

ParseSpec == ParseInit /\ [][ParseNext]_vars

\* The credential cache over time: concurrent calls on an orchestrator
\* with the built-in base URL, for a model of two direct providers and a
\* delegated one; a request is answered 2xx or 500; cached keys age, the
\* cleanup cycle runs, and the cache is cleared on demand.
CacheEnvs == {Env(StoredNone, TRUE, TRUE)}
CacheArgs == {StrArg(M_gpt), StrArg(M_gemini), StrArg(M_claude)}
CacheOutcomes == {HttpOk, 500}

CacheInit == InitIn(CacheEnvs, FALSE)

CacheNext ==
    \/ \E c \in Calls :
        \/ Start(c, CacheArgs, {INPUT_TEXT})
        \/ Progress(c, CacheOutcomes, FALSE)
    \/ \E p \in DirectProviders : Expire(p)
    \/ Cleanup
    \/ \E target \in ClearTargets : clearApiKeyCache(target)

CacheSpec == CacheInit /\ [][CacheNext]_vars

\* Teardown: the caller awaits each call, on an orchestrator with the
\* built-in base URL, for an OpenAI model and a delegated one; cached keys
\* age, the cleanup cycle runs while its timer does, and destroy() may be
\* called at any time, any number of times.
TeardownEnvs == {Env(StoredNone, TRUE, TRUE)}
TeardownArgs == {StrArg(M_gpt), StrArg(M_claude)}
TeardownOutcomes == {HttpOk, 500}

TeardownInit == InitIn(TeardownEnvs, FALSE)

TeardownNext ==
    \/ \E c \in Calls :
        \/ NoneUnresolved /\ Start(c, TeardownArgs, {INPUT_TEXT})
        \/ Progress(c, TeardownOutcomes, FALSE)
    \/ \E p \in DirectProviders : Expire(p)
    \/ Cleanup
    \/ destroy

TeardownSpec == TeardownInit /\ [][TeardownNext]_vars

\* Request bodies: the Groq and Gemini builders, in builds with various
\* token limits, for texts of various lengths and callers that give or do
\* not give config.maxTokens.
BudgetInit == InitWith({Env(StoredNone, TRUE, TRUE)}, FALSE, TokenLimits)

BudgetNext == BuildRequest

BudgetSpec == BudgetInit /\ [][BudgetNext]_vars

\* Custom base URLs: the caller awaits each call, for an OpenAI model and
\* a delegated one, on orchestrators whose settings hold a secure, an
\* insecure, a loopback, a loopback-lookalike or a foreign provider's URL.
BaseEnvs == {Env(u, TRUE, TRUE) : u \in SecurityUrls}
BaseArgs == {StrArg(M_gpt), StrArg(M_claude)}
BaseOutcomes == {HttpOk, 500}

BaseInit == InitIn(BaseEnvs, FALSE)

BaseNext ==
    \E c \in Calls :
        \/ NoneUnresolved /\ Start(c, BaseArgs, {INPUT_TEXT})
        \/ Progress(c, BaseOutcomes, FALSE)

BaseSpec == BaseInit /\ [][BaseNext]_vars

\* Concurrent use in which every await of a call settles: calls for an
\* OpenAI model and a delegated one on an orchestrator with the built-in
\* base URL, a request is answered 2xx or 500, and a call that can take a
\* step eventually takes one.
LiveEnvs == {Env(StoredNone, TRUE, TRUE)}
LiveArgs == {StrArg(M_gpt), StrArg(M_claude)}
LiveOutcomes == {HttpOk, 500}

LiveInit == InitIn(LiveEnvs, FALSE)

LiveNext ==
    \E c \in Calls :
        \/ Start(c, LiveArgs, {INPUT_TEXT})
        \/ Progress(c, LiveOutcomes, FALSE)

LiveSpec ==
    /\ LiveInit
    /\ [][LiveNext]_vars
    /\ \A c \in Calls : WF_vars(Progress(c, LiveOutcomes, FALSE))

\* Delegated calls among direct ones: concurrent calls on an orchestrator
\* with the built-in base URL, for an OpenAI model, an Anthropic model and
\* a local one; a request is answered 2xx or 500.
DelegatedEnvs == {Env(StoredNone, TRUE, TRUE)}
DelegatedArgs == {StrArg(M_gpt), StrArg(M_claude), StrArg(M_local)}
DelegatedOutcomes == {HttpOk, 500}

DelegatedInit == InitIn(DelegatedEnvs, FALSE)

DelegatedNext ==
    \E c \in Calls :
        \/ Start(c, DelegatedArgs, {INPUT_TEXT})
        \/ Progress(c, DelegatedOutcomes, FALSE)

DelegatedSpec == DelegatedInit /\ [][DelegatedNext]_vars

\* ------------------------------------------------------------- properties
\* What the properties speak of.
OpenAICalls == {c \in Calls : calls[c].provider = "openai" /\ calls[c].reqs # <<>>}
ShapesOf(reqs) == {reqs[i].type : i \in 1..Len(reqs)}
UrlsOf(reqs) == {reqs[i].url : i \in 1..Len(reqs)}
IsBlank(arg) ==
    arg.kind # "string" \/ \A i \in 1..Len(arg.chars) : arg.chars[i] = " "
Untouched ==
    UNCHANGED <<isProcessing, apiKeyCache, expiredKeys, openAiEndpointPreference,
                localStoragePrefs, calls>>
\* The base URL the OpenAI driver resolves in this environment.
CurrentBase == getConfiguredOpenAIBase(hasStorage, cloudReasoningBaseUrl)
\* The durable storage accepts a preference (it exists and what it holds
\* parses).
StorageWritable == hasStorage /\ localStoragePrefs.kind # "garbage"

\* C1 (as claimed): at most one direct (OpenAI, Gemini or Groq) call is
\* past its guard check and not yet returned.
C1_AtMostOneDirectInFlight ==
    Cardinality({c \in Calls : DirectInFlight(c)}) <= 1

\* C2 (as claimed): a direct call issued while another direct call is
\* unresolved fails at once with "Already processing a request".
C2_SecondDirectCallRejected ==
    (/\ event.op = "start"
     /\ event.driver \in DirectProviders
     /\ \E d \in Calls \ {event.call} : DirectInFlight(d))
    => (event.settled /\ event.error = ErrBusy)

\* C3: whenever no direct call is executing, isProcessing is false,
\* however the call that took the guard ended.
C3_GuardNotStuck ==
    (\A c \in Calls : ~DirectInFlight(c)) => isProcessing = FALSE

\* C3 witness: a direct call that had taken the guard just failed on an
\* HTTP error, no direct call is left, and the guard is free.
C3_Witness ==
    /\ event.op = "http" /\ event.settled /\ event.error = ApiError("groq", 500)
    /\ \A c \in Calls : ~DirectInFlight(c)
    /\ isProcessing = FALSE

\* C4: a call with a non-blank model that the registry classifies as one of
\* the five providers invokes that provider's driver and no other, from
\* its start to its end.
C4_RoutesToClassifiedDriver ==
    /\ (/\ event.op = "start"
        /\ ~IsBlank(event.arg)
        /\ getModelProvider(Trim(event.arg.chars)) \in KnownProviders)
       => event.driver = getModelProvider(Trim(event.arg.chars))
    /\ \A c \in Calls : Unresolved(c) => calls[c].invoked = {calls[c].provider}
    /\ event.op \notin {"init", "start"} => event.driver = event.provider

\* C4 witness: a padded OpenAI model went to the OpenAI driver, which runs.
C4_Witness ==
    /\ event.op = "start"
    /\ event.arg = StrArg(<<" ">> \o M_gpt \o <<" ">>)
    /\ event.driver = "openai"
    /\ Unresolved(event.call)

\* C5: a call whose model is absent, empty or whitespace-only throws "No
\* reasoning model selected" without consulting the registry, invoking a
\* driver, or changing the guard, the credential cache, the endpoint
\* preference or any call in flight.
C5_BlankModelFailsFirst ==
    [][(event'.op = "start" /\ IsBlank(event'.arg))
       => (/\ event'.settled
           /\ event'.error = ErrNoModel
           /\ event'.provider = "" /\ event'.driver = ""
           /\ Untouched)]_vars

\* C5 witness: a whitespace-only model was refused while a key is cached
\* and a preference is recorded.
C5_Witness ==
    /\ event.op = "start" /\ event.arg = StrArg(<<" ", " ">>)
    /\ event.error = ErrNoModel
    /\ apiKeyCache["openai"] # ""
    /\ \E b \in Bases : openAiEndpointPreference[b] # "none"

\* C6: a call whose non-blank model the registry classifies outside the
\* five providers throws "Unsupported reasoning provider", invokes no
\* driver and changes nothing.
C6_UnknownProviderFails ==
    [][(/\ event'.op = "start"
        /\ ~IsBlank(event'.arg)
        /\ getModelProvider(Trim(event'.arg.chars)) \notin KnownProviders)
       => (/\ event'.settled
           /\ event'.error = ErrUnsupported
           /\ event'.driver = ""
           /\ Untouched)]_vars

\* C6 witness: the unclassified model was refused.
C6_Witness ==
    /\ event.op = "start" /\ event.arg = StrArg(M_other)
    /\ event.settled /\ event.error = ErrUnsupported
    /\ apiKeyCache["openai"] # ""

\* C7 (as claimed): an OpenAI call issued after its base (one without a
\* shape suffix) was marked "chat" on a 404/405 requests the
\* chat-completions endpoint only.
C7_MarkedChatStaysChat ==
    \A c \in OpenAICalls :
        (calls[c].afterMark /\ ~HasShapeSuffix(calls[c].base))
        => ShapesOf(calls[c].reqs) = {"chat"}

\* C8 (as claimed): with a preference known for a base without a shape
\* suffix, only the preferred shape is requested.
C8_OnlyPreferredShape ==
    \A c \in OpenAICalls :
        (~HasShapeSuffix(calls[c].base) /\ calls[c].pref \in Shapes)
        => ShapesOf(calls[c].reqs) = {calls[c].pref}

\* C8 (amended): with preference "chat" only the chat-completions endpoint
\* is requested; with preference "responses" an attempt requests the
\* responses endpoint first, and the chat-completions endpoint after it.
C8_PreferredShapeFirst ==
    \A c \in OpenAICalls :
        LET rec == calls[c] IN
        ~HasShapeSuffix(rec.base) =>
            /\ rec.pref = "chat" =>
                 /\ ShapesOf(rec.reqs) = {"chat"}
                 /\ UrlsOf(rec.reqs) = {rec.base \o CHAT_PATH}
            /\ rec.pref = "responses" =>
                 /\ rec.reqs[1].type = "responses"
                 /\ rec.reqs[1].url = rec.base \o RESPONSES_PATH
                 /\ Len(rec.reqs) > 1 => rec.reqs[2].type = "chat"

\* C8 witness: the storage held "responses", the responses request failed
\* and the chat-completions endpoint is being requested.
C8_Witness ==
    \E c \in OpenAICalls :
        /\ ~HasShapeSuffix(calls[c].base)
        /\ calls[c].pref = "responses"
        /\ Len(calls[c].reqs) = 2
        /\ calls[c].pc = "http"

C10_SuffixFixesShape ==
    \A c \in OpenAICalls :
        LET rec == calls[c]
            lower == ToLower(rec.base)
        IN
        /\ EndsWith(lower, RESPONSES_PATH) =>
             /\ UrlsOf(rec.reqs) = {rec.base}
             /\ ShapesOf(rec.reqs) = {"responses"}
             /\ Len(rec.reqs) = 1
        /\ EndsWith(lower, CHAT_PATH) =>
             /\ UrlsOf(rec.reqs) = {rec.base}
             /\ ShapesOf(rec.reqs) = {"chat"}
             /\ Len(rec.reqs) = 1

\* C10 witness: the base ends in "/Responses", the stored preference is
\* "chat", the first attempt failed, and the second one requests the base.
C10_Witness ==
    \E c \in OpenAICalls :
        /\ calls[c].base = StoredResponses
        /\ calls[c].pref = "chat"
        /\ calls[c].attempt = 2
        /\ calls[c].pc = "http"

\* C11: a 404 or 405 on a responses-shape request records "chat" for the
\* base (in memory, and in the storage when it accepts writes); when the
\* attempt has another endpoint the chat-completions endpoint is requested
\* next in the same attempt and no error is thrown; and a 2xx on that
\* chat request takes the call to its response body.
C11_UnsupportedEndpointAbsorbed ==
    /\ (/\ event.op = "http" /\ event.provider = "openai"
        /\ event.outcome \in {404, 405} /\ event.type = "responses")
       => /\ openAiEndpointPreference[CurrentBase] = "chat"
          /\ StorageWritable => localStoragePrefs.map[CurrentBase] = "chat"
          /\ event.more =>
               LET rec == calls[event.call] IN
               /\ ~event.settled /\ event.error = ""
               /\ rec.pc = "http"
               /\ Len(rec.reqs) = 2
               /\ rec.reqs[1].type = "responses" /\ rec.reqs[1].att = rec.attempt
               /\ rec.reqs[2].type = "chat" /\ rec.reqs[2].att = rec.attempt
    /\ (/\ event.op = "http" /\ event.provider = "openai"
        /\ event.outcome = HttpOk /\ event.type = "chat"
        /\ Len(calls[event.call].reqs) = 2)
       => /\ ~event.settled /\ event.error = ""
          /\ calls[event.call].pc = "body"

\* C11 witness: the responses endpoint answered 405, "chat" is recorded
\* in memory and storage, and the chat-completions endpoint is being
\* requested in the same attempt.
C11_Witness ==
    /\ event.op = "http" /\ event.outcome = 405 /\ event.type = "responses"
    /\ event.more /\ ~event.settled
    /\ StorageWritable
    /\ openAiEndpointPreference[CurrentBase] = "chat"
    /\ localStoragePrefs.map[CurrentBase] = "chat"
    /\ calls[event.call].pc = "http"
    /\ calls[event.call].reqs[2].type = "chat"

C13_SuccessRecordsShape ==
    (/\ event.provider = "openai"
     /\ \/ event.op = "http" /\ event.outcome = HttpOk
        \/ event.op = "body" /\ event.settled /\ ~event.threw)
    => openAiEndpointPreference[CurrentBase] = event.type

\* The recognised text fields of a parsed OpenAI body in their priority
\* order: the output_text contents of the message items of output, the
\* top-level output_text, then per choice the content of its message (a
\* string or parts) and its text.
RECURSIVE ContentTexts(_, _)
ContentTexts(content, i) ==
    IF i > Len(content) THEN <<>>
    ELSE (IF content[i].type = "output_text" THEN <<content[i].text>> ELSE <<>>)
         \o ContentTexts(content, i + 1)

RECURSIVE OutputTexts(_, _)
OutputTexts(output, i) ==
    IF i > Len(output) THEN <<>>
    ELSE (IF output[i].type = "message" THEN ContentTexts(output[i].content, 1)
          ELSE <<>>)
         \o OutputTexts(output, i + 1)

RECURSIVE ChoiceTexts(_, _)
ChoiceTexts(choices, i) ==
    IF i > Len(choices) THEN <<>>
    ELSE <<ChoiceMessage(choices[i]).content>> \o ChoiceMessage(choices[i]).parts
         \o <<choices[i].text>> \o ChoiceTexts(choices, i + 1)

RecognisedTexts(body) ==
    OutputTexts(body.output, 1) \o <<body.output_text>> \o ChoiceTexts(body.choices, 1)

\* The first of these fields that holds non-blank text, trimmed.
RECURSIVE FirstNonBlank(_, _)
FirstNonBlank(texts, i) ==
    IF i > Len(texts) THEN <<>>
    ELSE IF TrimmedText(texts[i]) # <<>> THEN TrimmedText(texts[i])
    ELSE FirstNonBlank(texts, i + 1)

\* C14 (as claimed): a parsed 2xx OpenAI body ends the call without error;
\* the result is the first recognised field with non-blank text, trimmed,
\* and the input text when no field has any.
C14_FirstTextOrInput ==
    (event.op = "body" /\ event.provider = "openai" /\ event.body.json)
    => /\ event.settled /\ ~event.threw
       /\ event.result =
            IF FirstNonBlank(RecognisedTexts(event.body), 1) = <<>>
            THEN event.text
            ELSE FirstNonBlank(RecognisedTexts(event.body), 1)

\* C15 (as claimed): a call that returns, returns a non-empty text,
\* whichever provider served it.
C15_SuccessIsNonEmpty ==
    (event.settled /\ ~event.threw) => event.result # <<>>

\* C15, for the Gemini driver alone.
C15_GeminiSuccessIsNonEmpty ==
    (event.settled /\ ~event.threw /\ event.provider = "gemini")
    => event.result # <<>>

\* C15, for the delegated drivers alone.
C15_DelegatedSuccessIsNonEmpty ==
    (event.settled /\ ~event.threw /\ event.op = "ipc") => event.result # <<>>

\* C15, for the Groq driver alone.
C15_GroqSuccessIsNonEmpty ==
    (event.settled /\ ~event.threw /\ event.provider = "groq")
    => event.result # <<>>

\* A field holds no text: it is absent or the empty string.
HasNoText(v) == v.kind # "string" \/ v.chars = <<>>

\* C16: a parsed 2xx Gemini body without candidates throws the
\* invalid-structure error; one whose first candidate has no text throws
\* the token-limit error when its finishReason is MAX_TOKENS and the
\* empty-response error otherwise; the three messages differ, and no text
\* is returned in any of these cases.
C16_GeminiEmptyClassified ==
    /\ Cardinality({ErrGeminiStructure, ErrGeminiTokens, ErrGeminiEmpty}) = 3
    /\ (event.op = "body" /\ event.provider = "gemini" /\ event.body.json)
       => LET cs == event.body.candidates
              noText == cs # <<>> /\ (cs[1].parts = <<>>
                                      \/ HasNoText(cs[1].parts[1].text))
          IN  /\ cs = <<>> =>
                   /\ event.settled /\ event.threw /\ event.result = <<>>
                   /\ event.error = "Invalid response structure from Gemini API"
              /\ (noText /\ cs[1].finishReason = "MAX_TOKENS") =>
                   /\ event.settled /\ event.threw /\ event.result = <<>>
                   /\ event.error = ErrGeminiTokens
              /\ (noText /\ cs[1].finishReason # "MAX_TOKENS") =>
                   /\ event.settled /\ event.threw /\ event.result = <<>>
                   /\ event.error = "Gemini returned empty response"

\* C16 witness: a first candidate without content that stopped on
\* MAX_TOKENS ended the call with the token-limit error.
C16_Witness ==
    /\ event.op = "body" /\ event.provider = "gemini" /\ event.body.json
    /\ event.body.candidates # <<>>
    /\ event.body.candidates[1].parts = <<>>
    /\ event.body.candidates[1].finishReason = "MAX_TOKENS"
    /\ event.threw /\ event.error = ErrGeminiTokens

C15_OpenAISuccessIsNonEmpty ==
    (event.settled /\ ~event.threw /\ event.provider = "openai")
    => event.result # <<>>

\* The call whose step the last transition was.
EventCall == calls[event.call]

\* C18: getApiKey returns the cached key without calling the key-retrieval
\* capability when the cache holds one; on a miss it calls the capability
\* of the provider once, caches and returns a non-empty key, and on
\* nothing, an empty value or a rejection it fails with the
\* "<Provider> API key not configured" error and leaves the cache as it was.
C18_CredentialFetch ==
    [][/\ (event'.op = "start" /\ ~event'.settled /\ event'.driver \in DirectProviders)
          => /\ apiKeyCache' = apiKeyCache
             /\ IF apiKeyCache[event'.driver] # ""
                THEN /\ calls'[event'.call].pc = "keyReady"
                     /\ calls'[event'.call].apiKey = apiKeyCache[event'.driver]
                ELSE /\ calls'[event'.call].apiKey = ""
                     /\ calls'[event'.call].pc = "keyFetch" <=> hasElectron
       /\ (\A c \in Calls : calls'[c].pc = "keyFetch" /\ calls[c].pc # "keyFetch"
             => event'.op = "start" /\ event'.call = c)
       /\ event'.op = "key"
          => /\ calls'[event'.call].pc = "keyReady"
             /\ IF event'.got = "key"
                THEN /\ calls'[event'.call].apiKey = API_KEY
                     /\ apiKeyCache' = [apiKeyCache EXCEPT ![event'.provider] = API_KEY]
                ELSE /\ calls'[event'.call].apiKey = ""
                     /\ apiKeyCache' = apiKeyCache
       /\ event'.op = "resume"
          => /\ apiKeyCache' = apiKeyCache
             /\ IF calls[event'.call].apiKey = ""
                THEN /\ event'.threw
                     /\ event'.error = KeyMissingError(event'.provider)
                ELSE ~event'.threw
      ]_vars

\* C18 happens: a call found the cache empty, the capability returned a
\* key, and the key is cached and held by the call.
C18_Witness ==
    /\ event.op = "key"
    /\ event.got = "key"
    /\ apiKeyCache[event.provider] = API_KEY
    /\ EventCall.apiKey = API_KEY

\* C18 happens: a later call got the cached key without a retrieval.
C18_WitnessHit ==
    /\ event.op = "start"
    /\ event.driver \in DirectProviders
    /\ ~event.settled
    /\ EventCall.pc = "keyReady"
    /\ EventCall.apiKey = API_KEY

\* C18 happens: the capability returned an empty value and the call failed
\* with the key-missing error.
C18_WitnessMissing ==
    /\ event.op = "resume"
    /\ event.threw
    /\ event.error = KeyMissingError(event.provider)
    /\ apiKeyCache[event.provider] = ""

\* C19 (as claimed): while the cache holds the key of a provider, that is
\* between a successful retrieval and the next eviction of the entry, the
\* key-retrieval capability of the provider returns no further key.
C19_OneRetrievalPerEntry ==
    [][event'.op = "key" /\ event'.got = "key"
          => apiKeyCache[event'.provider] = ""]_vars

\* C19, the part that holds: a call that starts while the cache holds the
\* key of its provider does not invoke the capability.
C19_NoInvocationOnHit ==
    [][\A c \in Calls :
          calls'[c].pc = "keyFetch" /\ calls[c].pc # "keyFetch"
              => apiKeyCache[calls'[c].provider] = ""]_vars

\* C20: a cleanup cycle removes from the cache every key older than the
\* TTL and keeps every younger one; the next call for a provider whose key
\* was removed finds a miss and invokes the key-retrieval capability again.
C20_TtlSweep ==
    [][/\ event'.op = "cleanup"
          => \A p \in DirectProviders :
                apiKeyCache'[p] = IF p \in expiredKeys THEN "" ELSE apiKeyCache[p]
       /\ (/\ event.op = "cleanup"
           /\ event'.op = "start"
           /\ event'.driver \in event.swept
           /\ ~event'.settled)
          => calls'[event'.call].pc = "keyFetch"
      ]_vars

\* C20 happens: a cleanup cycle removed the OpenAI key, which was older
\* than the TTL, and kept the younger Gemini key.
C20_Witness ==
    /\ event.op = "cleanup"
    /\ "openai" \in event.swept
    /\ apiKeyCache["openai"] = ""
    /\ apiKeyCache["gemini"] = API_KEY

\* C21: clearApiKeyCache(provider) removes the cached key of that provider
\* and keeps every other entry, clearApiKeyCache() removes all entries; the
\* next call for an evicted provider invokes the key-retrieval capability
\* again; isProcessing and the endpoint preference are not modified.
C21_ClearEvicts ==
    [][/\ event'.op = "clear"
          => /\ \A p \in DirectProviders :
                   apiKeyCache'[p] = IF event'.provider \in {p, ""} THEN ""
                                     ELSE apiKeyCache[p]
             /\ UNCHANGED <<isProcessing, openAiEndpointPreference, localStoragePrefs>>
       /\ (/\ event.op = "clear"
           /\ event'.op = "start"
           /\ event'.driver \in DirectProviders
           /\ event.provider \in {event'.driver, ""}
           /\ ~event'.settled)
          => calls'[event'.call].pc = "keyFetch"
      ]_vars

\* C21 happens: the OpenAI key was cleared while the Gemini key stays
\* cached and a direct call is in flight.
C21_Witness ==
    /\ event.op = "clear"
    /\ event.provider = "openai"
    /\ event.swept = {"openai"}
    /\ apiKeyCache["gemini"] = API_KEY
    /\ isProcessing

\* C22: the cleanup timer runs from construction on and destroy() stops
\* it: once destroy() was called no cleanup cycle runs any more and the
\* timer is never restarted; a destroy() after the first changes nothing.
C22_DestroyStopsCleanup ==
    /\ cleanupRunning = TRUE
    /\ [][/\ event'.op = "destroy" => ~cleanupRunning'
          /\ ~cleanupRunning => ~cleanupRunning' /\ event'.op # "cleanup"
          /\ (event'.op = "destroy" /\ ~cleanupRunning)
             => UNCHANGED <<isProcessing, apiKeyCache, expiredKeys, cleanupRunning,
                            openAiEndpointPreference, localStoragePrefs, calls>>
         ]_vars

\* C22 happens: destroy() was called a second time, and a key older than
\* the TTL is still cached, as no cycle removes it any more.
C22_Witness ==
    /\ event.op = "destroy"
    /\ event.got = "stopped"
    /\ ~cleanupRunning
    /\ "openai" \in expiredKeys
    /\ apiKeyCache["openai"] = API_KEY

\* The floor and the ceiling the build gives a provider.
ProviderFloor(provider) ==
    IF provider = "gemini" THEN TOKEN_LIMITS.MIN_TOKENS_GEMINI ELSE TOKEN_LIMITS.MIN_TOKENS
ProviderCeiling(provider) ==
    IF provider = "gemini" THEN TOKEN_LIMITS.MAX_TOKENS_GEMINI ELSE TOKEN_LIMITS.MAX_TOKENS

\* C23 (as claimed): without config.maxTokens the max-token value of a Groq
\* or Gemini request is max(floor, min(ceil(length * multiplier), ceiling))
\* for the floor and ceiling of the provider, so it lies within
\* [floor, ceiling], and it does not decrease as the text grows.
C23_BudgetWithinBounds ==
    /\ (event.op = "request" /\ event.maxTokens = NoMaxTokens)
       => /\ event.sent = Max(ProviderFloor(event.provider),
                              Min(CeilTimes(event.length, TOKEN_LIMITS.TOKEN_MULTIPLIER),
                                  ProviderCeiling(event.provider)))
          /\ event.sent >= ProviderFloor(event.provider)
          /\ event.sent <= ProviderCeiling(event.provider)
    /\ \A provider \in BudgetProviders, shorter \in TextLengths, longer \in TextLengths :
          shorter <= longer
          => SentMaxTokens(provider, shorter, NoMaxTokens, TOKEN_LIMITS)
             <= SentMaxTokens(provider, longer, NoMaxTokens, TOKEN_LIMITS)

\* C23, the part that holds: the value does not decrease as the text
\* grows and never lies below the floor of the provider.
C23_BudgetMonotoneAboveFloor ==
    /\ (event.op = "request" /\ event.maxTokens = NoMaxTokens)
       => event.sent >= ProviderFloor(event.provider)
    /\ \A provider \in BudgetProviders, shorter \in TextLengths, longer \in TextLengths :
          shorter <= longer
          => SentMaxTokens(provider, shorter, NoMaxTokens, TOKEN_LIMITS)
             <= SentMaxTokens(provider, longer, NoMaxTokens, TOKEN_LIMITS)

\* C23 where the literal floors do not bind: in a build whose floors are
\* not below the literals, the claimed value is the one sent.
C23_BudgetWithinBoundsHighFloors ==
    (/\ TOKEN_LIMITS.MIN_TOKENS >= GROQ_LITERAL_FLOOR
     /\ TOKEN_LIMITS.MIN_TOKENS_GEMINI >= GEMINI_LITERAL_FLOOR)
    => C23_BudgetWithinBounds

\* C24 (as claimed): whatever number the caller gives as config.maxTokens
\* is the max-token value of the request; the computed budget is used only
\* when config.maxTokens is absent.
C24_OverrideAlwaysWins ==
    event.op = "request"
    => IF event.maxTokens.kind = "number"
       THEN event.sent = event.maxTokens.value
       ELSE event.sent = ComputedBudget(event.provider, event.length, TOKEN_LIMITS)

\* C24, the part that holds: a number other than 0 is sent as given.
C24_NonZeroOverrideWins ==
    (event.op = "request" /\ event.maxTokens.kind = "number" /\ event.maxTokens.value # 0)
    => event.sent = event.maxTokens.value

\* The host of a URL: what lies between "://" and the next "/", ":", "?"
\* or "#".
RECURSIVE UpToDelimiter(_)
UpToDelimiter(s) ==
    IF s = <<>> \/ Head(s) \in {"/", ":", "?", "#"}
    THEN <<>>
    ELSE <<Head(s)>> \o UpToDelimiter(Tail(s))
HostOf(url) ==
    IF StartsWith(url, HTTPS) THEN UpToDelimiter(SubSeq(url, Len(HTTPS) + 1, Len(url)))
    ELSE IF StartsWith(url, HTTP) THEN UpToDelimiter(SubSeq(url, Len(HTTP) + 1, Len(url)))
    ELSE <<>>
LoopbackHosts == {SubSeq(LOCALHOST, 4, Len(LOCALHOST)), SubSeq(LOOPBACK_IP, 4, Len(LOOPBACK_IP))}
NonOpenAIHosts == {GROQ_HOST, ANTHROPIC_HOST, GEMINI_HOST}
\* A URL under the built-in base, or one that is secure or loopback and
\* not at a known non-OpenAI provider.
AllowedUrl(url) ==
    \/ StartsWith(url, OPENAI_BASE)
    \/ /\ StartsWith(url, HTTPS) \/ HostOf(url) \in LoopbackHosts
       /\ HostOf(url) \notin NonOpenAIHosts

\* C25 (as claimed): the base URL the OpenAI driver resolves is the
\* built-in one, or uses https or a loopback host and is not at a known
\* non-OpenAI provider; every OpenAI request goes to such a URL.
C25_OnlyAllowedBases ==
    \A c \in OpenAICalls :
        /\ AllowedUrl(calls[c].base)
        /\ \A url \in UrlsOf(calls[c].reqs) : AllowedUrl(url)

\* C25, the part that holds: no OpenAI request goes to a known non-OpenAI
\* provider, and a plain-http URL is used only if it contains "://localhost"
\* or "://127.0.0.1".
C25_NoForeignProviderNoPlainHttp ==
    \A c \in OpenAICalls :
        \A url \in UrlsOf(calls[c].reqs) :
            /\ HostOf(url) \notin NonOpenAIHosts
            /\ \/ StartsWith(url, HTTPS)
               \/ Includes(url, LOCALHOST)
               \/ Includes(url, LOOPBACK_IP)

DelegatedProviders == {"anthropic", "local"}

\* C26 (as claimed): an Anthropic or Local call issued while isProcessing
\* is true fails with "Already processing a request" and does not invoke
\* the delegated channel.
C26_DelegatedCallChecksGuard ==
    (/\ event.op = "start"
     /\ event.driver \in DelegatedProviders
     /\ isProcessing)
    => /\ event.threw
       /\ event.error = ErrBusy
       /\ EventCall.pc # "ipc"

\* C27: every call returns or throws once its awaits settle; a call makes
\* at most MaxRetries + 1 attempts, and an attempt requests each of its
\* at most two endpoint candidates at most once.
C27_CallsTerminate ==
    /\ [](\A c \in Calls :
            /\ calls[c].attempt <= MaxRetries + 1
            /\ Len(calls[c].cands) <= 2
            /\ Len(calls[c].reqs) <= Len(calls[c].cands)
            /\ \A i \in 1..Len(calls[c].reqs) :
                  /\ calls[c].reqs[i].att = calls[c].attempt
                  /\ \A j \in 1..Len(calls[c].reqs) :
                        calls[c].reqs[i].url = calls[c].reqs[j].url => i = j)
    /\ \A c \in Calls : Unresolved(c) ~> ~Unresolved(c)

\* C27 happens: an OpenAI call is in its last attempt and has requested
\* both endpoints in it.
C27_Witness ==
    \E c \in OpenAICalls :
        /\ calls[c].attempt = MaxRetries + 1
        /\ Len(calls[c].reqs) = 2

\* Only delegated calls are unresolved.
OnlyDelegatedInFlight ==
    \A c \in Calls : Unresolved(c) => calls[c].provider \in DelegatedProviders

\* C28: a step of an Anthropic or Local call leaves isProcessing, the
\* credential cache and the endpoint preference as they are; a delegated
\* call is started whatever else is in flight; and a direct call issued
\* while only delegated calls are in flight is not rejected by the guard.
C28_DelegatedCallsUnserialized ==
    [][/\ (event'.op \in {"start", "ipc"} /\ event'.driver \in DelegatedProviders)
          => UNCHANGED <<isProcessing, apiKeyCache, expiredKeys,
                         openAiEndpointPreference, localStoragePrefs>>
       /\ (event'.op = "start" /\ event'.driver \in DelegatedProviders)
          => /\ ~event'.settled
             /\ calls'[event'.call].pc = "ipc"
       /\ (/\ event'.op = "start"
           /\ event'.driver \in DirectProviders
           /\ OnlyDelegatedInFlight)
          => /\ event'.error # ErrBusy
             /\ calls'[event'.call].pc # "idle"
      ]_vars

\* C28 happens: an Anthropic call and a Local call are in flight at once.
C28_Witness ==
    /\ event.op = "start"
    /\ event.driver \in DelegatedProviders
    /\ \A c \in Calls : calls[c].pc = "ipc"
    /\ {calls[c].provider : c \in Calls} = DelegatedProviders

\* C28 happens: a direct call was started while a delegated call is in
\* flight.
C28_WitnessDirect ==
    /\ event.op = "start"
    /\ event.driver \in DirectProviders
    /\ ~event.settled
    /\ \E c \in Calls : calls[c].pc = "ipc"

\* The last step was a response by which the OpenAI driver records a
\* preference: a 2xx, or a 404/405 of the responses endpoint.
RecordingResponse(ev) ==
    /\ ev.op = "http"
    /\ ev.provider = "openai"
    /\ \/ ev.outcome = HttpOk
       \/ ev.outcome \in {404, 405} /\ ev.type = "responses"
\* The preference a call would find for a base.
EffectivePreference(mem, item, base) ==
    getStoredOpenAiPreference(mem, hasStorage, item, base)

\* C29 (as claimed): the in-memory and the persisted preference change
\* only at a 2xx of an OpenAI endpoint or at a 404/405 of the responses
\* endpoint, and then only in the entry of the base of that call.
C29_PreferenceWrittenAtTwoEvents ==
    [][(openAiEndpointPreference' # openAiEndpointPreference
        \/ localStoragePrefs' # localStoragePrefs)
       => /\ RecordingResponse(event')
          /\ \A b \in Bases \ {calls[event'.call].base} :
                /\ openAiEndpointPreference'[b] = openAiEndpointPreference[b]
                /\ localStoragePrefs'.map[b] = localStoragePrefs.map[b]
      ]_vars

\* C29 (amended): the persisted preference, and the preference a call
\* finds for a base, change only at those two events and only for the
\* base of the call; apart from them the in-memory map changes only when
\* an OpenAI call reads the preference of its base, and takes the value
\* found in the storage.
C29_EffectivePreferenceWrittenAtTwoEvents ==
    [][/\ (\/ localStoragePrefs' # localStoragePrefs
           \/ \E b \in Bases :
                EffectivePreference(openAiEndpointPreference', localStoragePrefs', b)
                # EffectivePreference(openAiEndpointPreference, localStoragePrefs, b))
          => RecordingResponse(event')
       /\ RecordingResponse(event')
          => \A b \in Bases \ {calls[event'.call].base} :
                /\ openAiEndpointPreference'[b] = openAiEndpointPreference[b]
                /\ localStoragePrefs'.map[b] = localStoragePrefs.map[b]
       /\ (openAiEndpointPreference' # openAiEndpointPreference
           /\ ~RecordingResponse(event'))
          => /\ event'.op = "resume"
             /\ event'.provider = "openai"
             /\ openAiEndpointPreference' =
                  [openAiEndpointPreference EXCEPT ![CurrentBase] =
                     EffectivePreference(openAiEndpointPreference, localStoragePrefs,
                                         CurrentBase)]
      ]_vars

\* C29 happens: a 2xx recorded the preference of the call's base in a
\* stored object that holds the entry of another base, which is kept.
C29_Witness ==
    /\ RecordingResponse(event)
    /\ localStoragePrefs.kind = "object"
    /\ localStoragePrefs.map[CurrentBase] = event.type
    /\ openAiEndpointPreference[CurrentBase] = event.type
    /\ localStoragePrefs.map[OtherBase(CurrentBase)] = "chat"

\* C29 happens: an OpenAI request failed with a 500 after the in-memory
\* entry of the call's base had been loaded from the storage.
C29_WitnessFailure ==
    /\ event.op = "http"
    /\ event.provider = "openai"
    /\ event.outcome = 500
    /\ localStoragePrefs.kind = "object"
    /\ openAiEndpointPreference[CurrentBase] # "none"
    /\ localStoragePrefs.map[CurrentBase] = openAiEndpointPreference[CurrentBase]

\* C30 (as claimed): for a base URL without shape suffix and without a
\* preference stored beforehand, "chat" is the preference only if the
\* responses endpoint answered 404 or 405 in some call for that base.
C30_ChatOnlyAfterUnsupported ==
    \A b \in Bases :
        (/\ ~HasShapeSuffix(b)
         /\ \/ openAiEndpointPreference[b] = "chat"
            \/ localStoragePrefs.map[b] = "chat")
        => b \in chatMarked

\* ------------------------------------------------- C31: parsing and retry
\* A step of a Gemini or Groq call that followed a 2xx answer: the answer
\* itself, or the reading of its body.
After2xx(ev) ==
    /\ ev.provider \in {"gemini", "groq"}
    /\ \/ ev.op = "http" /\ ev.outcome = HttpOk
       \/ ev.op = "body"

C31_ParsedBodyEndsCall ==
    (event.op = "body" /\ event.provider \in {"gemini", "groq"} /\ event.body.json)
    => /\ event.settled
       /\ calls[event.call] = IdleCall
       /\ Parsed(event.provider, event.body, event.text).threw
            => /\ event.threw
               /\ event.raised = Parsed(event.provider, event.body, event.text).error
               /\ event.result = <<>>

\* C31 witness: Groq answered 2xx with a body without choices and the call
\* ended with the invalid-structure error, no attempt pending.
C31_Witness ==
    /\ event.op = "body" /\ event.provider = "groq" /\ event.body.json
    /\ event.body.choices = <<>>
    /\ event.threw /\ event.raised = ErrGroqStructure
    /\ calls[event.call] = IdleCall

\* C31 witness: a 2xx answer of Gemini whose body did not decode left the
\* attempt failed and the retry executor waiting to run it again.
C31_WitnessUndecodable ==
    /\ event.op = "body" /\ event.provider = "gemini" /\ ~event.body.json
    /\ calls[event.call].pc = "backoff"

\* ------------------------------------------- C32: key retrieval that fails
\* The call of the last step ended with the key-missing error.
KeyMissingEnded(ev) ==
    /\ ev.op = "resume" /\ ev.threw
    /\ ev.error = KeyMissingError(ev.provider)

\* C32: when the key retrieval of a direct provider's call yields no key
\* (the capability returned nothing or an empty value, rejected, or is not
\* there), the call fails with the "<Provider> API key not configured"
\* error; it has sent no request and started no attempt, isProcessing was
\* false all along and stays false, and a direct-provider call issued next
\* is not rejected by the guard.
C32_KeyFailureLeavesGuardFree ==
    [][/\ (event'.op = "key" /\ event'.got # "key")
          => /\ isProcessing' = FALSE /\ isProcessing = FALSE
             /\ calls'[event'.call].apiKey = ""
             /\ calls'[event'.call].reqs = <<>>
       /\ (event'.op = "resume" /\ calls[event'.call].apiKey = "")
          => /\ KeyMissingEnded(event')
             /\ event'.provider \in DirectProviders
             /\ calls[event'.call].reqs = <<>> /\ calls[event'.call].attempt = 0
             /\ calls'[event'.call] = IdleCall
             /\ isProcessing = FALSE /\ isProcessing' = FALSE
       /\ (KeyMissingEnded(event) /\ event'.op = "start"
           /\ event'.driver \in DirectProviders)
          => /\ event'.error # ErrBusy
             /\ calls'[event'.call].pc \in {"keyFetch", "keyReady"}
      ]_vars

\* C32 under concurrent use: a retrieval without key and the failure that
\* follows it leave isProcessing as another call may have set it, and the
\* failing call has sent nothing.
C32_KeyFailureKeepsGuard ==
    [][/\ (event'.op = "key" /\ event'.got # "key")
          => isProcessing' = isProcessing
       /\ (event'.op = "resume" /\ calls[event'.call].apiKey = "")
          => /\ KeyMissingEnded(event')
             /\ isProcessing' = isProcessing
             /\ calls[event'.call].reqs = <<>>
      ]_vars

\* C32 witness: the Gemini capability rejected or returned nothing, the
\* call ended with "Gemini API key not configured", the guard is free and
\* no call is left.
C32_Witness ==
    /\ KeyMissingEnded(event) /\ event.provider = "gemini"
    /\ event.error = "Gemini API key not configured"
    /\ hasElectron
    /\ isProcessing = FALSE
    /\ NoneUnresolved

\* ------------------------------------------------ C33: the rejected call
\* A call that has taken the guard and has not returned yet.
HoldsGuard(rec) ==
    rec.provider \in DirectProviders /\ rec.pc \in {"http", "backoff", "body"}

\* C33: a direct-provider call rejected by the guard found isProcessing
\* true and leaves it true; it takes no slot, starts no key retrieval and
\* sends no request, and leaves the credential cache, the endpoint
\* preference in memory and in storage and every other call as they were;
\* a call that holds the guard is still in flight after the rejection.
\* isProcessing goes back to false only in the step in which a direct
\* call that had taken it returns or throws.
C33_RejectedCallChangesNothing ==
    [][/\ (event'.op = "start" /\ event'.threw /\ event'.error = ErrBusy)
          => /\ event'.driver \in DirectProviders
             /\ isProcessing = TRUE /\ isProcessing' = TRUE
             /\ calls' = calls
             /\ \A c \in Calls : calls'[c].pc = "keyFetch" => calls[c].pc = "keyFetch"
             /\ apiKeyCache' = apiKeyCache /\ expiredKeys' = expiredKeys
             /\ openAiEndpointPreference' = openAiEndpointPreference
             /\ localStoragePrefs' = localStoragePrefs
             /\ chatMarked' = chatMarked
             /\ \E c \in Calls : HoldsGuard(calls[c]) /\ HoldsGuard(calls'[c])
       /\ (isProcessing = TRUE /\ isProcessing' = FALSE)
          => /\ event'.settled /\ event'.op \in {"http", "body"}
             /\ HoldsGuard(calls[event'.call])
             /\ calls'[event'.call] = IdleCall
      ]_vars

\* C33 witness: a Gemini call was rejected while an OpenAI call, still
\* waiting for its answer, holds the guard.
C33_Witness ==
    /\ event.op = "start" /\ event.threw /\ event.error = ErrBusy
    /\ event.driver = "gemini"
    /\ isProcessing = TRUE
    /\ \E c \in Calls : calls[c].provider = "openai" /\ calls[c].pc = "http"
    /\ \A c \in Calls : calls[c].provider # "gemini"

C34_HandedModelIsTrimmed ==
    /\ \A c \in Calls : Unresolved(c) => calls[c].model = Trim(calls[c].model)
    /\ (event.op = "start" /\ ~event.settled)
       => /\ EventCall.model = TrimmedModel(event.arg)
          /\ getModelProvider(EventCall.model) = event.provider

\* C34 (the part that holds): the OpenAI, Anthropic, Local and Gemini
\* drivers hold the trimmed model argument; the Groq driver holds the
\* argument as the caller gave it, which trims to the classified name.
C34_HandedModelIsTrimmedExceptGroq ==
    /\ \A c \in Calls :
         (Unresolved(c) /\ calls[c].provider # "groq")
         => calls[c].model = Trim(calls[c].model)
    /\ (event.op = "start" /\ ~event.settled)
       => IF event.provider = "groq"
          THEN /\ EventCall.model = event.arg.chars
               /\ Trim(EventCall.model) = TrimmedModel(event.arg)
          ELSE EventCall.model = TrimmedModel(event.arg)

\* C34 witness: a model argument with surrounding whitespace reached the
\* OpenAI driver trimmed.
C34_Witness ==
    /\ event.op = "start" /\ ~event.settled /\ event.provider = "openai"
    /\ event.arg.chars # TrimmedModel(event.arg)
    /\ EventCall.model = TrimmedModel(event.arg)

\* C34 witness: a Groq request is in flight for a model name that ends
\* with a blank.
C34_WitnessGroq ==
    \E c \in Calls :
        /\ calls[c].provider = "groq" /\ calls[c].pc = "http"
        /\ calls[c].model # Trim(calls[c].model)

====
